---- MODULE Spec2Model ----
(***************************************************************************)
(* Verification model of the chunked dump-processing engine:               *)
(*   - DumpReader.get_file_chunks / record_from_chunk_gen / batch_generator *)
(*     (src/src/reader/dump_reader.py)                                      *)
(*   - Chunk.__init__ (src/src/models/file_chunk.py)                        *)
(*   - process_record (src/src/models/record/record_factory.py)             *)
(*   - worker_thread, _initialize_stages, _make_entry_stage_from_generator  *)
(*     (src/src/pipeline/runner.py)                                         *)
(*   - StageResult (src/src/models/results/stage_result.py)                 *)
(*                                                                          *)
(* A file is a sequence of bytes.  Bytes are written as short strings:      *)
(*   "N" = 0x0A, "R" = 0x0D, "T" = 0x09, "a"/"b" = ASCII letters,           *)
(*   "w0","w1","w2","w3" = the four bytes of one 4-byte UTF-8 character.    *)
(* Decoded text is a sequence of characters: "N","R","T","a","b","W".       *)
(***************************************************************************)
EXTENDS Integers, Sequences, FiniteSets, TLC

\* ------------------------------------------------------------------ bounds
MaxLines == 3       \* lines per file
MaxCpu == 3         \* max_cpu and mp.cpu_count() range
MaxOffset == 3      \* Chunk(start, end) arguments range over -MaxOffset..MaxOffset
MaxItems == 4       \* items fed to batch_generator
MaxBatchSize == 3   \* batch_size argument
MaxBatch == 3       \* transport records per parsed batch
MaxStages == 2      \* factories per worker
MaxRecords == 2     \* transport records per worker chunk
MaxPoolChunks == 5  \* chunks handed to process_chunks_in_pool
MaxProcs == 2       \* num_threads of the pool
MaxThreads == 3     \* threads calling write_shutdown_info
MaxOps == 4         \* operations applied to one StageResult
MaxCopyLines == 3   \* lines of the file copy_lines reads
MaxCount == 4       \* largest max_lines / start given to copy_lines
MaxLoggers == 2     \* threads using one BufferedFileHandler
MaxCalls == 2       \* emit / flush / close calls made by one thread
MaxCapacity == 2    \* capacity of the BufferedFileHandler
MaxRefs == 2        \* elements of a JSON authors / languages / works list

\* ------------------------------------------------------------- utilities
Min(a, b) == IF a < b THEN a ELSE b

RECURSIVE Flatten(_)
Flatten(ss) == IF ss = <<>> THEN <<>> ELSE Head(ss) \o Flatten(Tail(ss))

RECURSIVE SeqsUpTo(_, _)
SeqsUpTo(S, n) ==
  IF n = 0 THEN {<<>>}
  ELSE LET shorter == SeqsUpTo(S, n - 1)
       IN  shorter \cup {Append(s, x) : s \in {t \in shorter : Len(t) = n - 1}, x \in S}

Reverse(s) == [i \in 1..Len(s) |-> s[Len(s) + 1 - i]]

\* ------------------------------------------------------- UTF-8 file model
\* str.encode("utf-8") of one character.
EncodeChar(c) == IF c = "W" THEN <<"w0", "w1", "w2", "w3">> ELSE <<c>>

RECURSIVE Encode(_)
Encode(cs) == IF cs = <<>> THEN <<>> ELSE EncodeChar(Head(cs)) \o Encode(Tail(cs))

\* The UTF-8 decoder of the text-mode file object, started on a character
\* boundary (every offset the reader seeks to is a line start).
RECURSIVE Decode(_)
Decode(bs) ==
  IF bs = <<>> THEN <<>>
  ELSE IF Head(bs) = "w0" /\ Len(bs) >= 4
       THEN <<"W">> \o Decode(SubSeq(bs, 5, Len(bs)))
       ELSE <<Head(bs)>> \o Decode(Tail(bs))

\* Line contents of the input format (without terminator).
RecA == <<"a", "T", "T", "T", "T", "a">>
RecB == <<"b", "T", "T", "T", "T", "b">>
RecWide == <<"W", "T", "T", "T", "T", "W">>
ThreeCols == <<"a", "T", "b", "T", "a">>
BlankLine == <<>>
OneChar == <<"a">>
EmptyEnds == <<"T", "a", "T", "T", "b", "T">>
LineTemplates == {RecA, RecB, RecWide, ThreeCols, BlankLine, OneChar, EmptyEnds}

LF == <<"N">>
CRLF == <<"R", "N">>

\* Bytes of a file whose lines are `lines`, each terminated by `eol`, the
\* last one only when `trailing` holds.
RECURSIVE FileBytes(_, _, _)
FileBytes(lines, eol, trailing) ==
  IF lines = <<>> THEN <<>>
  ELSE IF Len(lines) = 1
       THEN Encode(Head(lines)) \o (IF trailing THEN eol ELSE <<>>)
       ELSE Encode(Head(lines)) \o eol \o FileBytes(Tail(lines), eol, trailing)

VARIABLES
  \* --- DumpReader.get_file_chunks and the streams read from its chunks
  file,         \* bytes of the file on disk
  max_cpu,      \* argument of get_file_chunks
  cpus,         \* mp.cpu_count()
  pc,           \* position inside get_file_chunks and its consumers
  chunk_start,  \* local of get_file_chunks
  chunks,       \* local of get_file_chunks
  ret,          \* value returned by get_file_chunks
  streamed,     \* records streamed per chunk, in chunk order
  whole,        \* records streamed for (0, file_size)
  \* --- Chunk(file_name, start, end)
  c_args,       \* the constructor arguments
  c_pc,         \* "call" before, "done" after the constructor ran
  c_obj,        \* outcome: exception raised and attributes of the object
  \* --- DumpReader.batch_generator
  b_input,      \* the items the input generator yields
  b_size,       \* batch_size
  b_gen,        \* items not yet consumed from the input generator
  b_out,        \* batches yielded so far
  b_pc,         \* "active" until the generator is exhausted
  \* --- _make_entry_stage_from_generator
  e_data,       \* the batch of transport records
  e_pc,         \* "call" / "returned" / "raised"
  e_result,     \* the StageResult returned
  \* --- worker_thread
  w_stage_factory, w_ctx_factory, \* factory lists (or None)
  w_records,    \* what record_from_chunk_gen yields for the chunk
  w_batch_size, \* batch_size
  w_pc,         \* "start" / "running" / "returned" / "raised"
  w_pipeline,   \* local pipeline: list of (stage, ctx)
  w_gen,        \* records not yet read from the stream
  w_entries,    \* number of batches turned into an entry StageResult
  w_calls,      \* stage operations invoked so far, in order
  w_exc,        \* exception propagated out of worker_thread
  \* --- process_chunks_in_pool
  p_chunks,     \* data_chunks
  p_n,          \* num_threads
  p_outcome,    \* per chunk: how worker_thread ends on it ("returns" / "raises")
  p_queue,      \* task batches no pool process has taken yet
  p_proc,       \* per pool process: None, or the batch it works on
  p_calls,      \* arguments of every worker_thread invocation, in start order
  p_finished,   \* chunks (by index) whose worker_thread call has ended
  p_left,       \* MapResult._number_left
  p_success,    \* MapResult._success
  p_pc,          \* "call" / "mapping" / "returned" / "raised"
  \* --- StageInterface.write_shutdown_info
  l_n,          \* number of threads, each making one call
  l_path,       \* per thread: the file_path argument (or None)
  l_pc,         \* per thread: position inside write_shutdown_info
  l_p,          \* per thread: local p, the normalized path
  l_lock,       \* per thread: local lock, the lock object obtained
  l_file_locks, \* module global _file_locks: path -> lock object
  l_maplock,    \* holder of module global _file_locks_lock (0: free)
  l_held,       \* per lock object ever created: its holder (0: free)
  l_files,      \* file system: path -> pieces appended so far
  l_dirs,        \* file system: directories that exist
  \* --- StageResult
  sr,           \* the StageResult object
  sr_origin,    \* who created it: "constructed" / "entry" / "fields" / "language"
  sr_initial,   \* the object as it was handed over by its creator
  sr_ok_calls,  \* add_ok calls made on it since
  sr_err_calls, \* add_err calls made on it since
  sr_flag,       \* has_failed as constructed, or as last set by mark_failed / setter
  \* --- utility.copy_lines
  cp_lines,     \* the lines the source file was written from
  cp_src,       \* bytes of the source file
  cp_dst,       \* the destination file: None when absent, else its bytes
  cp_max_lines, cp_start, cp_append, \* arguments
  cp_pc,        \* "call" / "returned" / "raised"
  cp_ret,        \* value returned
  \* --- process_batch of the validation stages
  st_stage,     \* "fields" (EditionFieldValidation) / "language"
  st_data,      \* argument stage_data
  st_any,       \* ctx.flags.any_language
  st_pc,        \* "call" / "returned" / "raised"
  st_out,        \* the StageResult returned
  \* BufferedFileHandler used by several threads
  h_capacity,    \* self.capacity
  h_installed,   \* the handler is one of the root logger's handlers
  h_buffer,      \* self._buffer
  h_file,        \* lines appended to self.filename
  h_lock,        \* holder of self._lock (0: free)
  h_pc,          \* position of each thread
  h_op,          \* the call each thread is in
  h_msg,         \* formatted record of each thread's emit
  h_nested,      \* the emit was reached from flush's logging call
  h_count,       \* calls made by each thread
  h_entered,     \* history: messages in the order they entered the buffer
  h_failed,       \* history: a write to disk has failed
  \* --- list fields of an edition record
  n_data,       \* json.loads(...) restricted to "authors", "languages", "works"
  n_pc,         \* "call" / "returned" / "raised"
  n_out         \* authors, languages, works given to EditionRecord

chunkerVars == <<file, max_cpu, cpus, pc, chunk_start, chunks, ret, streamed, whole>>
ctorVars == <<c_args, c_pc, c_obj>>
batchVars == <<b_input, b_size, b_gen, b_out, b_pc>>
entryVars == <<e_data, e_pc, e_result>>
workerVars == <<w_stage_factory, w_ctx_factory, w_records, w_batch_size, w_pc,
                w_pipeline, w_gen, w_entries, w_calls, w_exc>>
poolVars == <<p_chunks, p_n, p_outcome, p_queue, p_proc, p_calls, p_finished,
              p_left, p_success, p_pc>>
lockVars == <<l_n, l_path, l_pc, l_p, l_lock, l_file_locks, l_maplock, l_held, l_files, l_dirs>>
resultVars == <<sr, sr_origin, sr_initial, sr_ok_calls, sr_err_calls, sr_flag>>
copyVars == <<cp_lines, cp_src, cp_dst, cp_max_lines, cp_start, cp_append, cp_pc, cp_ret>>
stageVars == <<st_stage, st_data, st_any, st_pc, st_out>>
handlerVars == <<h_capacity, h_installed, h_buffer, h_file, h_lock, h_pc, h_op, h_msg, h_nested, h_count, h_entered, h_failed>>
listVars == <<n_data, n_pc, n_out>>
vars == <<chunkerVars, ctorVars, batchVars, entryVars, workerVars, poolVars, lockVars, resultVars, copyVars, stageVars, handlerVars, listVars>>

\* Python's None, and a Python list, as values that can be told apart.
None == [none |-> TRUE]
List(items) == [list |-> items]

\* The components a specification does not exercise stay as constructed.
IdleChunker ==
  /\ file = <<>> /\ max_cpu = 1 /\ cpus = 1 /\ pc = "idle" /\ chunk_start = 0
  /\ chunks = <<>> /\ ret = <<>> /\ streamed = <<>> /\ whole = <<>>
IdleCtor == c_args = <<>> /\ c_pc = "idle" /\ c_obj = None
IdleBatch ==
  b_input = <<>> /\ b_size = 1 /\ b_gen = <<>> /\ b_out = <<>> /\ b_pc = "idle"
IdleEntry == e_data = List(<<>>) /\ e_pc = "idle" /\ e_result = None
IdleWorker ==
  /\ w_stage_factory = None /\ w_ctx_factory = None /\ w_records = <<>>
  /\ w_batch_size = 1 /\ w_pc = "idle" /\ w_pipeline = <<>> /\ w_gen = <<>>
  /\ w_entries = 0 /\ w_calls = <<>> /\ w_exc = None
IdlePool ==
  /\ p_chunks = <<>> /\ p_n = 1 /\ p_outcome = <<>> /\ p_queue = <<>>
  /\ p_proc = <<>> /\ p_calls = <<>> /\ p_finished = {} /\ p_left = 0
  /\ p_success = TRUE /\ p_pc = "idle"
IdleLocks ==
  /\ l_n = 0 /\ l_path = <<>> /\ l_pc = <<>> /\ l_p = <<>> /\ l_lock = <<>>
  /\ l_file_locks = <<>> /\ l_maplock = 0 /\ l_held = <<>> /\ l_files = <<>>
  /\ l_dirs = {}
IdleResult ==
  /\ sr = None /\ sr_origin = "idle" /\ sr_initial = None
  /\ sr_ok_calls = 0 /\ sr_err_calls = 0 /\ sr_flag = FALSE
IdleCopy ==
  /\ cp_lines = <<>> /\ cp_src = <<>> /\ cp_dst = None /\ cp_max_lines = 0
  /\ cp_start = 0 /\ cp_append = FALSE /\ cp_pc = "idle" /\ cp_ret = None
IdleStage ==
  /\ st_stage = "idle" /\ st_data = None /\ st_any = FALSE /\ st_pc = "idle"
  /\ st_out = None
IdleHandler ==
  /\ h_capacity = 1 /\ h_installed = FALSE /\ h_buffer = <<>> /\ h_file = <<>>
  /\ h_lock = 0 /\ h_pc = <<>> /\ h_op = <<>> /\ h_msg = <<>> /\ h_nested = <<>>
  /\ h_count = <<>> /\ h_entered = <<>> /\ h_failed = FALSE
IdleLists == n_data = None /\ n_pc = "idle" /\ n_out = None

\* ------------------------------------------------------------ Chunk
ChunkInit_accepts_empty(file_name, start, end) ==
  IF start > end \/ start < 0 \/ end < 0
  THEN [raised |-> "InvalidChunkBoundaryError", attrs |-> [file_name |-> file_name]]
  ELSE [raised |-> "none",
        attrs  |-> [file_name |-> file_name, start |-> start, end |-> end]]

\* Chunk.__init__: file_name is assigned first, then the boundary check.
ChunkInit(file_name, start, end) ==
  IF start > end \/ start < 0 \/ end < 0 \/ start = end
  THEN [raised |-> "InvalidChunkBoundaryError", attrs |-> [file_name |-> file_name]]
  ELSE [raised |-> "none",
        attrs  |-> [file_name |-> file_name, start |-> start, end |-> end]]

\* ------------------------------------------------------------ get_file_chunks
FileName == "dump.txt"

file_size == Len(file)
cpu_count_requested == max_cpu
cpu_count == Min(max_cpu, cpus)
chunk_size == file_size \div cpu_count

\* is_new_line(position): byte position-1 (0-based) is f[position] (1-based).
\* A read past end of file returns b'' which is not b'\n'.
is_new_line(f, position) ==
  IF position = 0 THEN TRUE
  ELSE position <= Len(f) /\ f[position] = "N"

\* next_line(position): seek, readline in binary mode, tell.
next_line_one_byte(f, position) == Min(Len(f), position + 1)

RECURSIVE next_line(_, _)
next_line(f, position) ==
  IF position >= Len(f) THEN position
  ELSE IF f[position + 1] = "N" THEN position + 1
       ELSE next_line(f, position + 1)

\* while chunk_end > 0 and not is_new_line(chunk_end): chunk_end -= 1
RECURSIVE WalkBack(_, _)
WalkBack(f, chunk_end) ==
  IF chunk_end > 0 /\ ~is_new_line(f, chunk_end)
  THEN WalkBack(f, chunk_end - 1)
  ELSE chunk_end

\* The chunk end without the `if chunk_start == chunk_end` step.
ChunkEnd_without_next_line(f, start, size) ==
  WalkBack(f, Min(Len(f), start + size))

\* The chunk end chosen by one iteration of the planning loop.
ChunkEnd(f, start, size) ==
  LET proposed == Min(Len(f), start + size)
      walked   == WalkBack(f, proposed)
  IN  IF start = walked THEN next_line(f, walked) ELSE walked

\* cpu_count check, then the locals of the loop.
GfcCall ==
  /\ pc = "call"
  /\ IF cpu_count < 1
     THEN pc' = "raised" /\ UNCHANGED <<chunk_start, chunks>>
     ELSE pc' = "loop" /\ chunk_start' = 0 /\ chunks' = <<>>
  /\ UNCHANGED <<file, max_cpu, cpus, ret, streamed, whole>>
  /\ UNCHANGED <<ctorVars, batchVars, entryVars, workerVars, poolVars, lockVars, resultVars, copyVars, stageVars, handlerVars, listVars>>

GfcIterate_skip_newline ==
  /\ pc = "loop"
  /\ chunk_start < file_size
  /\ LET chunk_end == ChunkEnd(file, chunk_start, chunk_size)
         c == ChunkInit(FileName, chunk_start, chunk_end)
     IN  IF c.raised # "none"
         THEN pc' = "raised" /\ UNCHANGED <<chunk_start, chunks>>
         ELSE /\ chunks' = Append(chunks, c.attrs)
              /\ chunk_start' = chunk_end + 1
              /\ pc' = "loop"
  /\ UNCHANGED <<file, max_cpu, cpus, ret, streamed, whole>>
  /\ UNCHANGED <<ctorVars, batchVars, entryVars, workerVars, poolVars, lockVars, resultVars, copyVars, stageVars, handlerVars, listVars>>

\* One iteration of `while chunk_start < file_size`.
GfcIterate ==
  /\ pc = "loop"
  /\ chunk_start < file_size
  /\ LET chunk_end == ChunkEnd(file, chunk_start, chunk_size)
         c == ChunkInit(FileName, chunk_start, chunk_end)
     IN  IF c.raised # "none"
         THEN pc' = "raised" /\ UNCHANGED <<chunk_start, chunks>>
         ELSE /\ chunks' = Append(chunks, c.attrs)
              /\ chunk_start' = chunk_end
              /\ pc' = "loop"
  /\ UNCHANGED <<file, max_cpu, cpus, ret, streamed, whole>>
  /\ UNCHANGED <<ctorVars, batchVars, entryVars, workerVars, poolVars, lockVars, resultVars, copyVars, stageVars, handlerVars, listVars>>

\* Loop exit and `return cpu_count, len(chunks), chunks`.
GfcReturn ==
  /\ pc = "loop"
  /\ ~(chunk_start < file_size)
  /\ pc' = "returned"
  /\ ret' = <<cpu_count, Len(chunks), chunks>>
  /\ UNCHANGED <<file, max_cpu, cpus, chunk_start, chunks, streamed, whole>>
  /\ UNCHANGED <<ctorVars, batchVars, entryVars, workerVars, poolVars, lockVars, resultVars, copyVars, stageVars, handlerVars, listVars>>

\* ------------------------------------------------------------ record_from_chunk_gen
\* Universal-newline translation of the text-mode file object: "\r\n" and a
\* lone "\r" both read as "\n".
RECURSIVE TranslateNewlines(_)
TranslateNewlines(cs) ==
  IF cs = <<>> THEN <<>>
  ELSE IF Head(cs) = "R"
       THEN IF Len(cs) >= 2 /\ cs[2] = "N"
            THEN <<"N">> \o TranslateNewlines(SubSeq(cs, 3, Len(cs)))
            ELSE <<"N">> \o TranslateNewlines(Tail(cs))
       ELSE <<Head(cs)>> \o TranslateNewlines(Tail(cs))

\* Splits text into physical lines, each keeping its "\n" (the last line
\* may have none): what `for line in f` produces.
RECURSIVE SplitLines(_, _)
SplitLines(cs, cur) ==
  IF cs = <<>> THEN (IF cur = <<>> THEN <<>> ELSE <<cur>>)
  ELSE IF Head(cs) = "N"
       THEN <<Append(cur, "N")>> \o SplitLines(Tail(cs), <<>>)
       ELSE SplitLines(Tail(cs), Append(cur, Head(cs)))

\* Lines read by `for line in f` after f.seek(offset).
TextLinesFrom(f, offset) ==
  SplitLines(TranslateNewlines(Decode(SubSeq(f, offset + 1, Len(f)))), <<>>)

Whitespace == {"T", "N", "R"}

\* str.strip()
RECURSIVE LStrip(_)
LStrip(cs) == IF cs # <<>> /\ Head(cs) \in Whitespace THEN LStrip(Tail(cs)) ELSE cs

Strip(cs) == Reverse(LStrip(Reverse(LStrip(cs))))

\* str.split(sep): `cur` is the field being collected.
RECURSIVE Split(_, _, _)
Split(cs, sep, cur) ==
  IF cs = <<>> THEN <<cur>>
  ELSE IF Head(cs) = sep
       THEN <<cur>> \o Split(Tail(cs), sep, <<>>)
       ELSE Split(Tail(cs), sep, Append(cur, Head(cs)))

TransportRecord(r_type, ol_id, json_string) ==
  [r_type |-> r_type, ol_id |-> ol_id, json_string |-> json_string]

\* Amount added to the running offset for one line: len(line).
LineAdvance(line) == Len(line)

\* Body of `for i, line in enumerate(f)`, over the lines still unread.
\* `offset` is the local chunk_start after the previous line.
RECURSIVE StreamLines(_, _, _)
StreamLines(lines, offset, chunk_end) ==
  IF lines = <<>> THEN <<>>
  ELSE LET line == Head(lines)
           off  == offset + LineAdvance(line)
       IN  IF off > chunk_end THEN <<>>
           ELSE LET stripped == Strip(line)
                    parts    == Split(stripped, "T", <<>>)
                IN  IF stripped = <<>> THEN StreamLines(Tail(lines), off, chunk_end)
                    ELSE IF Len(parts) # 5 THEN StreamLines(Tail(lines), off, chunk_end)
                    ELSE <<TransportRecord(parts[1], parts[2], parts[5])>>
                           \o StreamLines(Tail(lines), off, chunk_end)

record_from_chunk_gen(f, start, end) ==
  StreamLines(TextLinesFrom(f, start), start, end)

\* Every chunk is streamed by its worker (runner.py:63) and the whole file
\* by process_file (dump_reader.py:173-174).
StreamChunks ==
  /\ pc = "returned"
  /\ pc' = "streamed"
  /\ streamed' = [i \in 1..Len(chunks) |->
                    record_from_chunk_gen(file, chunks[i].start, chunks[i].end)]
  /\ whole' = record_from_chunk_gen(file, 0, file_size)
  /\ UNCHANGED <<file, max_cpu, cpus, chunk_start, chunks, ret>>
  /\ UNCHANGED <<ctorVars, batchVars, entryVars, workerVars, poolVars, lockVars, resultVars, copyVars, stageVars, handlerVars, listVars>>

Eols == {LF, CRLF}

InitChunker ==
  /\ \E lines \in SeqsUpTo(LineTemplates, MaxLines), eol \in Eols, trailing \in BOOLEAN :
       file = FileBytes(lines, eol, trailing)
  /\ max_cpu \in 0..MaxCpu
  /\ cpus \in 1..MaxCpu
  /\ pc = "call"
  /\ chunk_start = 0
  /\ chunks = <<>>
  /\ ret = <<>>
  /\ streamed = <<>>
  /\ whole = <<>>
  /\ IdleCtor /\ IdleBatch /\ IdleEntry /\ IdleWorker /\ IdlePool /\ IdleLocks /\ IdleResult /\ IdleCopy /\ IdleStage /\ IdleHandler /\ IdleLists

NextChunker == GfcCall \/ GfcIterate \/ GfcReturn \/ StreamChunks

SpecChunker == InitChunker /\ [][NextChunker]_vars

\* get_file_chunks alone, on files of long, one-byte and empty lines: the
\* planning loop reads line lengths and newline positions only.  It is
\* sequential code: a step that can be taken is taken.
PlanTemplates == {RecA, BlankLine, OneChar}

InitPlan ==
  /\ \E lines \in SeqsUpTo(PlanTemplates, MaxLines), eol \in Eols, trailing \in BOOLEAN :
       file = FileBytes(lines, eol, trailing)
  /\ max_cpu \in 0..MaxCpu
  /\ cpus \in 1..MaxCpu
  /\ pc = "call"
  /\ chunk_start = 0
  /\ chunks = <<>>
  /\ ret = <<>>
  /\ streamed = <<>>
  /\ whole = <<>>
  /\ IdleCtor /\ IdleBatch /\ IdleEntry /\ IdleWorker /\ IdlePool /\ IdleLocks /\ IdleResult /\ IdleCopy /\ IdleStage /\ IdleHandler /\ IdleLists

NextPlan == GfcCall \/ GfcIterate \/ GfcReturn

SpecPlan == InitPlan /\ [][NextPlan]_vars /\ WF_vars(NextPlan)

\* ------------------------------------------------------------ Chunk constructor
FileNames == {"a.txt", "b.txt"}

InitCtor ==
  /\ \E fn \in FileNames, s \in (-MaxOffset)..MaxOffset, e \in (-MaxOffset)..MaxOffset :
       c_args = [file_name |-> fn, start |-> s, end |-> e]
  /\ c_pc = "call"
  /\ c_obj = None
  /\ IdleChunker /\ IdleBatch /\ IdleEntry /\ IdleWorker /\ IdlePool /\ IdleLocks /\ IdleResult /\ IdleCopy /\ IdleStage /\ IdleHandler /\ IdleLists

\* Chunk(file_name, start, end)
ChunkConstruct ==
  /\ c_pc = "call"
  /\ c_obj' = ChunkInit(c_args.file_name, c_args.start, c_args.end)
  /\ c_pc' = "done"
  /\ UNCHANGED c_args
  /\ UNCHANGED <<chunkerVars, batchVars, entryVars, workerVars, poolVars, lockVars, resultVars, copyVars, stageVars, handlerVars, listVars>>

NextCtor == ChunkConstruct

SpecCtor == InitCtor /\ [][NextCtor]_vars

\* ------------------------------------------------------------ batch_generator
\* One resumption of the generator: items are appended to `batch` until it
\* holds batch_size items (yield), or the input is exhausted (the rest is
\* yielded if non-empty, then StopIteration).
PullBatch_drops_tail(gen, batch, size) ==
  LET n == IF size >= 1 /\ Len(gen) >= size THEN size ELSE 0
  IN  [yielded |-> n > 0,
       batch   |-> SubSeq(gen, 1, n),
       rest    |-> IF n > 0 THEN SubSeq(gen, n + 1, Len(gen)) ELSE <<>>]

RECURSIVE PullBatch(_, _, _)
PullBatch(gen, batch, size) ==
  IF gen = <<>>
  THEN [yielded |-> batch # <<>>, batch |-> batch, rest |-> <<>>]
  ELSE LET b == Append(batch, Head(gen))
       IN  IF Len(b) = size
           THEN [yielded |-> TRUE, batch |-> b, rest |-> Tail(gen)]
           ELSE PullBatch(Tail(gen), b, size)

Items == {"x", "y"}

InitBatch ==
  /\ b_input \in SeqsUpTo(Items, MaxItems)
  /\ b_size \in -1..MaxBatchSize
  /\ b_gen = b_input
  /\ b_out = <<>>
  /\ b_pc = "active"
  /\ IdleChunker /\ IdleCtor /\ IdleEntry /\ IdleWorker /\ IdlePool /\ IdleLocks /\ IdleResult /\ IdleCopy /\ IdleStage /\ IdleHandler /\ IdleLists

\* next() on the generator object.
BatchNext ==
  /\ b_pc = "active"
  /\ LET r == PullBatch(b_gen, <<>>, b_size)
     IN  /\ b_gen' = r.rest
         /\ IF r.yielded
            THEN b_out' = Append(b_out, r.batch) /\ b_pc' = "active"
            ELSE b_out' = b_out /\ b_pc' = "exhausted"
  /\ UNCHANGED <<b_input, b_size>>
  /\ UNCHANGED <<chunkerVars, ctorVars, entryVars, workerVars, poolVars, lockVars, resultVars, copyVars, stageVars, handlerVars, listVars>>

NextBatch == BatchNext

SpecBatch == InitBatch /\ [][NextBatch]_vars

\* ------------------------------------------------------------ StageResult
\* StageResult(stage_name, details): has_failed defaults to False.
StageResult(stage_name, details) ==
  [stage_name |-> stage_name, details |-> details, has_failed |-> FALSE,
   success |-> <<>>, failed |-> <<>>]

\* StageResult(stage_name, details, has_failed=...)
StageResultInit(stage_name, details, has_failed) ==
  [StageResult(stage_name, details) EXCEPT !.has_failed = has_failed]

add_ok_overwrites(result, record) == [result EXCEPT !.success = <<record>>]
add_ok(result, record) == [result EXCEPT !.success = Append(@, record)]
add_err_marks_failed(result, error) ==
  [result EXCEPT !.failed = Append(@, error), !.has_failed = TRUE]
add_err(result, error) == [result EXCEPT !.failed = Append(@, error)]

\* StageResult.has_failed setter and StageResult.mark_failed
mark_failed(result, value) == [result EXCEPT !.has_failed = value]

\* StageResult.summary
summary(result) ==
  [stage_name |-> result.stage_name, has_failed |-> result.has_failed,
   total_processed |-> Len(result.success) + Len(result.failed),
   total_success |-> Len(result.success), total_failed |-> Len(result.failed),
   details |-> result.details]

\* StageResult.__len__
ResultLen(result) == Len(result.success) + Len(result.failed)

\* ------------------------------------------------------------ process_record
\* A type tag or id is a sequence of tokens, "/" being the path separator.
\* The JSON payload is represented by what json.loads does with it.
TypeTags == {<<"/", "type", "/", "edition">>, <<"/", "type", "/", "author">>,
             <<"/", "type", "/", "work">>, <<"/", "type", "/", "redirect">>,
             <<"/", "type", "/", "edition", "/">>}
Ids == {<<"/", "books", "/", "OL1">>, <<"OL2">>}
JsonStrings == {"valid", "invalid"}

TransportRecords ==
  {TransportRecord(t, i, j) : t \in TypeTags, i \in Ids, j \in JsonStrings}

\* s.split('/')[-1]
LastSegment(tokens) == LET segs == Split(tokens, "/", <<>>) IN segs[Len(segs)]

\* json.loads(t_record.json_string)
json_loads(json_string) ==
  IF json_string = "valid"
  THEN [raised |-> "none", value |-> "data"]
  ELSE [raised |-> "JSONDecodeError", value |-> None]

_process_edition_record(t_record) ==
  LET data == json_loads(t_record.json_string)
  IN  IF data.raised # "none"
      THEN [raised |-> data.raised, value |-> None, message |-> "Expecting value"]
      ELSE [raised |-> "none", message |-> "",
            value  |-> [class |-> "EditionRecord", ol_id |-> LastSegment(t_record.ol_id)]]

_process_author_record(t_record) ==
  LET data == json_loads(t_record.json_string)
  IN  IF data.raised # "none"
      THEN [raised |-> data.raised, value |-> None, message |-> "Expecting value"]
      ELSE [raised |-> "none", message |-> "",
            value  |-> [class |-> "AuthorRecord", ol_id |-> LastSegment(t_record.ol_id)]]

process_record(t_record) ==
  IF t_record = None
  THEN [raised |-> "ValueError", value |-> None,
        message |-> "TransportRecord cannot be None"]
  ELSE LET record_type == LastSegment(t_record.r_type)
       IN  IF record_type = <<"work">>
           THEN [raised |-> "NotImplementedError", value |-> None,
                 message |-> "work record processing not implemented"]
           ELSE IF record_type = <<"edition">> THEN _process_edition_record(t_record)
           ELSE IF record_type = <<"author">> THEN _process_author_record(t_record)
           ELSE [raised |-> "UnknownRecordTypeError", value |-> None,
                 message |-> "Unknown record type"]

\* ------------------------------------------------------------ entry parser
\* e.__str__(): a str object holding the exception's message.
ExcStr(outcome) == [type |-> "str", text |-> outcome.message]

EntryLoop_stops_at_error(data, result) ==
  LET ok == {n \in 0..Len(data) :
               \A k \in 1..n : process_record(data[k]).raised = "none"}
      n  == CHOOSE m \in ok : \A o \in ok : o <= m
      succ == [k \in 1..n |-> process_record(data[k]).value]
  IN  IF n = Len(data)
      THEN [result EXCEPT !.success = @ \o succ]
      ELSE [result EXCEPT !.success = @ \o succ,
                          !.failed = Append(@, ExcStr(process_record(data[n + 1])))]

\* for record in data: try process_record / add_ok, except Exception: add_err
RECURSIVE EntryLoop(_, _)
EntryLoop(data, result) ==
  IF data = <<>> THEN result
  ELSE LET outcome == process_record(Head(data))
       IN  EntryLoop(Tail(data),
                     IF outcome.raised = "none"
                     THEN add_ok(result, outcome.value)
                     ELSE add_err(result, ExcStr(outcome)))

_make_entry_stage_from_generator(data) ==
  IF data = None
  THEN [raised |-> "ValueError", value |-> None]
  ELSE [raised |-> "none",
        value  |-> EntryLoop(data.list, StageResult("Entry point",
                     "Initial Stage Result with transport records"))]

InitEntry ==
  /\ e_data \in {List(b) : b \in SeqsUpTo(TransportRecords, MaxBatch)} \cup {None}
  /\ e_pc = "call"
  /\ e_result = None
  /\ IdleChunker /\ IdleCtor /\ IdleBatch /\ IdleWorker /\ IdlePool /\ IdleLocks /\ IdleResult /\ IdleCopy /\ IdleStage /\ IdleHandler /\ IdleLists

\* _make_entry_stage_from_generator(batch)
EntryParse ==
  /\ e_pc = "call"
  /\ LET r == _make_entry_stage_from_generator(e_data)
     IN  IF r.raised = "none"
         THEN e_pc' = "returned" /\ e_result' = r.value
         ELSE e_pc' = "raised" /\ e_result' = None
  /\ UNCHANGED e_data
  /\ UNCHANGED <<chunkerVars, ctorVars, batchVars, workerVars, poolVars, lockVars, resultVars, copyVars, stageVars, handlerVars, listVars>>

NextEntry == EntryParse

SpecEntry == InitEntry /\ [][NextEntry]_vars

\* ------------------------------------------------------------ worker_thread
\* What a stage factory can produce: an object that is (or is not) a
\* StageInterface, with the behaviour of its three operations.
GoodStage ==
  [isinstance |-> TRUE, initialize |-> "ok", process_batch |-> "result", shutdown |-> "ok"]
StageFactories ==
  {GoodStage,
   [GoodStage EXCEPT !.initialize = "raise"],
   [GoodStage EXCEPT !.process_batch = "None"],
   [GoodStage EXCEPT !.process_batch = "raise"],
   [GoodStage EXCEPT !.shutdown = "raise"],
   [GoodStage EXCEPT !.isinstance = FALSE]}

\* What a context factory can produce: a PipelineContext or something else.
CtxFactories == {[isinstance |-> TRUE], [isinstance |-> FALSE]}

\* stage() / ctx(): the k-th factory of a list yields a new object, k.
Instantiate(factories) ==
  [k \in 1..Len(factories) |->
     [obj |-> k, isinstance |-> factories[k].isinstance, behaviour |-> factories[k]]]

\* zip(stages, context)
Zip(xs, ys) == [k \in 1..Min(Len(xs), Len(ys)) |-> <<xs[k], ys[k]>>]

Call(op, stage, ctx, arg) == [op |-> op, stage |-> stage.obj, ctx |-> ctx.obj, arg |-> arg]

\* for i, stage, ctx in enumerate(s): enumerate yields the pair
\* (i, (stage, ctx)), which the loop header unpacks into three names.
RECURSIVE InitializeLoop(_, _, _)
InitializeLoop(s, k, calls) ==
  IF k > Len(s) THEN [raised |-> "none", calls |-> calls]
  ELSE LET item == <<k - 1, s[k]>>
       IN  IF Len(item) # 3
           THEN [raised |-> "ValueError", calls |-> calls]  \* not enough values to unpack
           ELSE LET i == item[1]
                    stage == item[2]
                    ctx == item[3]
                IN  IF ~stage.isinstance THEN [raised |-> "ValueError", calls |-> calls]
                    ELSE IF ~ctx.isinstance THEN [raised |-> "ValueError", calls |-> calls]
                    ELSE IF stage.behaviour.initialize = "raise"
                         THEN [raised |-> "StageError",
                               calls |-> Append(calls, Call("initialize", stage, ctx, i))]
                         ELSE InitializeLoop(s, k + 1,
                                Append(calls, Call("initialize", stage, ctx, i)))

_initialize_stages(stage_factory, ctx_factory) ==
  IF stage_factory = None THEN [raised |-> "ValueError", calls |-> <<>>, s |-> <<>>]
  ELSE IF ctx_factory = None THEN [raised |-> "ValueError", calls |-> <<>>, s |-> <<>>]
  ELSE IF Len(stage_factory.list) # Len(ctx_factory.list)
       THEN [raised |-> "ValueError", calls |-> <<>>, s |-> <<>>]
  ELSE LET s == Zip(Instantiate(stage_factory.list), Instantiate(ctx_factory.list))
           loop == InitializeLoop(s, 1, <<>>)
       IN  [raised |-> loop.raised, calls |-> loop.calls, s |-> s]

\* stage.process_batch(current, ctx) of a stage that returns a result: a
\* fresh StageResult named after the stage, holding the input's successes
\* (nothing when it is handed None).
StageOutput(stage, current) ==
  [StageResult(stage.obj, "stage output") EXCEPT
     !.success = IF current = None THEN <<>> ELSE current.success]

\* for stage, ctx in pipeline: result = stage.process_batch(current, ctx)
RECURSIVE RunStages(_, _, _, _)
RunStages(pipeline, k, current, calls) ==
  IF k > Len(pipeline) THEN [raised |-> "none", calls |-> calls]
  ELSE LET stage == pipeline[k][1]
           ctx == pipeline[k][2]
           logged == Append(calls, Call("process_batch", stage, ctx, current))
       IN  IF stage.behaviour.process_batch = "raise"
           THEN [raised |-> "StageError", calls |-> logged]
           ELSE RunStages(pipeline, k + 1,
                          IF stage.behaviour.process_batch = "None"
                          THEN None ELSE StageOutput(stage, current),
                          logged)

\* for stage, ctx in reversed(pipeline): try stage.shutdown(ctx) except
\* Exception: log.  `k` counts down from len(pipeline).
RECURSIVE ShutdownLoop(_, _, _)
ShutdownLoop(pipeline, k, calls) ==
  IF k < 1 THEN calls
  ELSE LET stage == pipeline[k][1]
           ctx == pipeline[k][2]
           logged == Append(calls, Call("shutdown", stage, ctx, None))
       IN  IF stage.behaviour.shutdown = "raise"
           THEN ShutdownLoop(pipeline, k - 1, logged)  \* caught by `except Exception`
           ELSE ShutdownLoop(pipeline, k - 1, logged)

WorkerRecords ==
  {TransportRecord(<<"/", "type", "/", "edition">>, <<"OL2">>, "valid"),
   TransportRecord(<<"/", "type", "/", "work">>, <<"OL2">>, "valid")}

InitWorker ==
  /\ w_stage_factory \in {None} \cup {List(fs) : fs \in SeqsUpTo(StageFactories, MaxStages)}
  /\ w_ctx_factory \in {None} \cup {List(fs) : fs \in SeqsUpTo(CtxFactories, MaxStages)}
  /\ w_records \in SeqsUpTo(WorkerRecords, MaxRecords)
  /\ w_batch_size \in 1..2
  /\ w_pc = "start"
  /\ w_pipeline = <<>>
  /\ w_gen = <<>>
  /\ w_entries = 0
  /\ w_calls = <<>>
  /\ w_exc = None
  /\ IdleChunker /\ IdleCtor /\ IdleBatch /\ IdleEntry /\ IdlePool /\ IdleLocks /\ IdleResult /\ IdleCopy /\ IdleStage /\ IdleHandler /\ IdleLists

\* worker_thread up to the creation of the record generator.
WorkerStart ==
  /\ w_pc = "start"
  /\ LET r == _initialize_stages(w_stage_factory, w_ctx_factory)
     IN  /\ w_calls' = r.calls
         /\ IF r.raised # "none"
            THEN /\ w_pc' = "raised"
                 /\ w_exc' = [type |-> r.raised]
                 /\ UNCHANGED <<w_pipeline, w_gen>>
            ELSE /\ w_pc' = "running"
                 /\ w_pipeline' = r.s
                 /\ w_gen' = w_records
                 /\ UNCHANGED w_exc
  /\ UNCHANGED <<w_stage_factory, w_ctx_factory, w_records, w_batch_size, w_entries>>
  /\ UNCHANGED <<chunkerVars, ctorVars, batchVars, entryVars, poolVars, lockVars, resultVars, copyVars, stageVars, handlerVars, listVars>>

\* One iteration of `for batch in dr.batch_generator(gen, batch_size)`.
WorkerBatch ==
  /\ w_pc = "running"
  /\ LET pull == PullBatch(w_gen, <<>>, w_batch_size)
     IN  /\ pull.yielded
         /\ w_gen' = pull.rest
         /\ LET entry == _make_entry_stage_from_generator(List(pull.batch))
                run == RunStages(w_pipeline, 1, entry.value, w_calls)
            IN  IF entry.raised # "none"
                THEN /\ w_pc' = "raised" /\ w_exc' = [type |-> entry.raised]
                     /\ UNCHANGED <<w_entries, w_calls>>
                ELSE /\ w_entries' = w_entries + 1
                     /\ w_calls' = run.calls
                     /\ IF run.raised # "none"
                        THEN w_pc' = "raised" /\ w_exc' = [type |-> run.raised]
                        ELSE w_pc' = "running" /\ UNCHANGED w_exc
  /\ UNCHANGED <<w_stage_factory, w_ctx_factory, w_records, w_batch_size, w_pipeline>>
  /\ UNCHANGED <<chunkerVars, ctorVars, batchVars, entryVars, poolVars, lockVars, resultVars, copyVars, stageVars, handlerVars, listVars>>

\* The stream is exhausted: the shutdown loop, then the function returns.
WorkerFinish ==
  /\ w_pc = "running"
  /\ ~PullBatch(w_gen, <<>>, w_batch_size).yielded
  /\ w_gen' = <<>>
  /\ w_calls' = ShutdownLoop(w_pipeline, Len(w_pipeline), w_calls)
  /\ w_pc' = "returned"
  /\ UNCHANGED <<w_stage_factory, w_ctx_factory, w_records, w_batch_size,
                 w_pipeline, w_entries, w_exc>>
  /\ UNCHANGED <<chunkerVars, ctorVars, batchVars, entryVars, poolVars, lockVars, resultVars, copyVars, stageVars, handlerVars, listVars>>

NextWorker == WorkerStart \/ WorkerBatch \/ WorkerFinish

SpecWorker == InitWorker /\ [][NextWorker]_vars

\* ============================================================ claims C1-C4
Returned == pc \in {"returned", "streamed"}

\* Number of physical lines of the file (a final unterminated line counts).
NumLines(f) ==
  Cardinality({i \in 1..Len(f) : f[i] = "N"})
    + (IF f # <<>> /\ f[Len(f)] # "N" THEN 1 ELSE 0)

LineAligned(f, p) == p = 0 \/ p = Len(f) \/ f[p] = "N"

\* C1: once get_file_chunks has returned (min(max_cpu, cpu_count) >= 1), the
\* chunk list is contiguous, non-overlapping and covers [0, file_size)
\* exactly: first start 0, each start equals the previous end, last end is
\* file_size; an empty file yields the empty list.
C1_ChunksCoverFile ==
  Returned =>
    LET cs == ret[3] IN
      /\ (file_size = 0) <=> (cs = <<>>)
      /\ cs # <<>> => cs[1].start = 0 /\ cs[Len(cs)].end = file_size
      /\ \A i \in 1..Len(cs) : cs[i].start < cs[i].end
      /\ \A i \in 1..(Len(cs) - 1) : cs[i + 1].start = cs[i].end

C1_Witness == Returned /\ Len(ret[3]) >= 3 /\ ret[3][3].end = file_size

\* C2: every chunk boundary returned by get_file_chunks is offset 0, or
\* file_size, or a position whose preceding byte is "\n".
C2_BoundariesLineAligned ==
  Returned =>
    \A i \in 1..Len(ret[3]) :
      LineAligned(file, ret[3][i].start) /\ LineAligned(file, ret[3][i].end)

\* A file without trailing newline, ideal chunk size 0, several chunks.
C2_Witness ==
  /\ Returned
  /\ file # <<>> /\ file[Len(file)] # "N"
  /\ chunk_size = 0
  /\ Len(ret[3]) >= 2

\* C3: concatenating the records streamed for each chunk, in chunk order,
\* gives exactly the records streamed for the whole file (0, file_size).
C3_ChunkStreamsEqualWholeStream ==
  pc = "streamed" => Flatten(streamed) = whole

\* C4 as claimed: workers_used = min(max_cpu, cpu count); a file with at
\* least workers_used lines is split into exactly workers_used chunks; the
\* returned chunk_count is the length of the list.
C4_ChunkCountEqualsWorkers ==
  Returned =>
    /\ ret[1] = Min(max_cpu, cpus)
    /\ ret[2] = Len(ret[3])
    /\ NumLines(file) >= ret[1] => Len(ret[3]) = ret[1]

SingleLine(f, c) == \A p \in (c.start + 1)..(c.end - 1) : f[p] # "N"

\* Byte length of the longest physical line, terminator included.
RECURSIVE MaxLineBytes(_, _)
MaxLineBytes(f, run) ==
  IF f = <<>> THEN run
  ELSE IF Head(f) = "N"
       THEN LET rest == MaxLineBytes(Tail(f), 0)
            IN  IF run + 1 > rest THEN run + 1 ELSE rest
       ELSE MaxLineBytes(Tail(f), run + 1)

\* C4 amended: workers_used = min(max_cpu, cpu count) and chunk_count is the
\* length of the list; the number of chunks is not workers_used in general:
\* every chunk is at most file_size div workers_used bytes long unless it is
\* a single line, there are never more chunks than lines, and a file none of
\* whose lines is longer than the ideal size yields at least workers_used
\* chunks.
C4_ChunkCountBounds ==
  Returned =>
    LET n == Min(max_cpu, cpus)
        ideal == Len(file) \div n
        cs == ret[3]
    IN  /\ ret[1] = n
        /\ ret[2] = Len(cs)
        /\ \A i \in 1..Len(cs) :
             (cs[i].end - cs[i].start <= ideal) \/ SingleLine(file, cs[i])
        /\ Len(cs) <= NumLines(file)
        /\ (file # <<>> /\ MaxLineBytes(file, 0) <= ideal) => Len(cs) >= n

\* More chunks than workers, and fewer chunks than workers.
C4_Witness ==
  /\ Returned
  /\ NumLines(file) >= ret[1]
  /\ Len(ret[3]) > ret[1]
  /\ MaxLineBytes(file, 0) <= Len(file) \div ret[1]

\* ============================================================ claims C5-C6
\* C5: Chunk(file_name, start, end) succeeds iff 0 <= start < end; otherwise
\* it raises InvalidChunkBoundaryError and the object never gets start/end.
C5_ChunkConstruction ==
  c_pc = "done" =>
    IF 0 <= c_args.start /\ c_args.start < c_args.end
    THEN /\ c_obj.raised = "none"
         /\ c_obj.attrs = [file_name |-> c_args.file_name,
                           start |-> c_args.start, end |-> c_args.end]
    ELSE /\ c_obj.raised = "InvalidChunkBoundaryError"
         /\ "start" \notin DOMAIN c_obj.attrs
         /\ "end" \notin DOMAIN c_obj.attrs

\* A zero-width range was rejected.
C5_Witness ==
  /\ c_pc = "done"
  /\ c_args.start = c_args.end /\ c_args.start >= 0
  /\ c_obj.raised = "InvalidChunkBoundaryError"

CeilDiv(l, b) == (l + b - 1) \div b

\* C6: with batch size B > 0 an input of length L is yielded as ceil(L/B)
\* batches that are consecutive slices of the input; every batch has size B
\* except possibly the last, of size L mod B; no batch is ever empty.
C6_Batches ==
  b_size > 0 =>
    /\ \A i \in 1..Len(b_out) : b_out[i] # <<>>
    /\ \A i \in 1..(Len(b_out) - 1) : Len(b_out[i]) = b_size
    /\ Flatten(b_out) \o b_gen = b_input
    /\ b_pc = "exhausted" =>
         LET L == Len(b_input) IN
           /\ Len(b_out) = CeilDiv(L, b_size)
           /\ b_gen = <<>>
           /\ L > 0 =>
                Len(b_out[Len(b_out)]) =
                  (IF L % b_size = 0 THEN b_size ELSE L % b_size)

\* An exhausted generator that yielded full batches and a short last one.
C6_Witness ==
  /\ b_pc = "exhausted"
  /\ b_size = 2 /\ Len(b_input) = 3
  /\ Len(b_out) = 2 /\ Len(b_out[2]) = 1

\* ============================================================ claim C7
\* A record the entry parser must turn into a failure: its type tag's last
\* path segment is "work" or is neither "author" nor "edition", or its
\* normalizer raises (the payload is not valid JSON).
MustFail(rec) ==
  LET segs == Split(rec.r_type, "/", <<>>)
      seg  == segs[Len(segs)]
  IN  seg = <<"work">> \/ seg \notin {<<"author">>, <<"edition">>}
        \/ rec.json_string # "valid"

CountFailing(batch) == Cardinality({k \in 1..Len(batch) : MustFail(batch[k])})

\* The trailing id segment of the records that parse, in batch order.
RECURSIVE ParsableIds(_)
ParsableIds(batch) ==
  IF batch = <<>> THEN <<>>
  ELSE (IF MustFail(Head(batch)) THEN <<>> ELSE <<LastSegment(Head(batch).ol_id)>>)
         \o ParsableIds(Tail(batch))

\* C7: for every batch the entry parser returns (never raises) a StageResult
\* with one entry per record; exactly the records that must fail become
\* failures, each a string, and the records after a failing one are still
\* parsed (every other record is a success).
C7_EntryParserTotal ==
  (e_pc # "call" /\ e_data # None) =>
    /\ e_pc = "returned"
    /\ ResultLen(e_result) = Len(e_data.list)
    /\ Len(e_result.failed) = CountFailing(e_data.list)
    /\ \A k \in 1..Len(e_result.failed) : e_result.failed[k].type = "str"
    /\ [k \in 1..Len(e_result.success) |-> e_result.success[k].ol_id]
         = ParsableIds(e_data.list)
    /\ \A k \in 1..Len(e_result.success) :
         e_result.success[k].class \in {"EditionRecord", "AuthorRecord"}

\* A work record, then an unknown tag, then a parsable edition.
C7_Witness ==
  /\ e_pc = "returned"
  /\ e_data # None /\ Len(e_data.list) = 3
  /\ LastSegment(e_data.list[1].r_type) = <<"work">>
  /\ LastSegment(e_data.list[2].r_type) = <<"redirect">>
  /\ LastSegment(e_data.list[3].r_type) = <<"edition">>
  /\ e_data.list[3].json_string = "valid"
  /\ Len(e_result.failed) = 2 /\ Len(e_result.success) = 1

\* ============================================================ claims C8-C10
WorkerEnded == w_pc \in {"returned", "raised"}

\* Equal-length lists of factories that yield StageInterface and
\* PipelineContext instances.
ValidFactories ==
  /\ w_stage_factory # None /\ w_ctx_factory # None
  /\ Len(w_stage_factory.list) = Len(w_ctx_factory.list)
  /\ \A k \in 1..Len(w_stage_factory.list) : w_stage_factory.list[k].isinstance
  /\ \A k \in 1..Len(w_ctx_factory.list) : w_ctx_factory.list[k].isinstance

NumStages == Len(w_stage_factory.list)

\* Every stage's operations other than shutdown succeed.
StagesRun ==
  \A k \in 1..NumStages :
    /\ w_stage_factory.list[k].initialize = "ok"
    /\ w_stage_factory.list[k].process_batch # "raise"

CallsOf(op) == SelectSeq(w_calls, LAMBDA c : c.op = op)

FirstIndex(op) ==
  IF \E n \in 1..Len(w_calls) : w_calls[n].op = op
  THEN CHOOSE n \in 1..Len(w_calls) :
         w_calls[n].op = op /\ \A m \in 1..(n - 1) : w_calls[m].op # op
  ELSE Len(w_calls) + 1

LastIndex(op) ==
  IF \E n \in 1..Len(w_calls) : w_calls[n].op = op
  THEN CHOOSE n \in 1..Len(w_calls) :
         w_calls[n].op = op /\ \A m \in (n + 1)..Len(w_calls) : w_calls[m].op # op
  ELSE 0

\* C8: once worker_thread is past its initialization (or has ended), with
\* equal-length lists of valid factories whose stages initialize without
\* error, initialize was called exactly once on each stage, in list order,
\* with stage_id = index and the paired context, before any process_batch.
C8_InitializeOncePerStageInOrder ==
  (w_pc \in {"running", "returned", "raised"} /\ ValidFactories
     /\ \A k \in 1..NumStages : w_stage_factory.list[k].initialize = "ok") =>
    /\ CallsOf("initialize") =
         [k \in 1..NumStages |-> [op |-> "initialize", stage |-> k, ctx |-> k, arg |-> k - 1]]
    /\ LastIndex("initialize") < FirstIndex("process_batch")

\* The chunk's batches have all been handed to the pipeline.
AllBatchesProcessed == w_entries = CeilDiv(Len(w_records), w_batch_size)

\* C9: in a finished run of worker_thread in which all batches of the chunk
\* were processed, shutdown was called exactly once on every stage, last
\* stage first, and no shutdown precedes the last process_batch.
C9_ShutdownOncePerStageInReverse ==
  (WorkerEnded /\ ValidFactories /\ StagesRun /\ AllBatchesProcessed) =>
    /\ CallsOf("shutdown") =
         [k \in 1..NumStages |->
            [op |-> "shutdown", stage |-> NumStages + 1 - k,
             ctx |-> NumStages + 1 - k, arg |-> None]]
    /\ LastIndex("process_batch") < FirstIndex("shutdown")

\* C10: whatever subset of the stages fails in shutdown, worker_thread
\* returns normally and shutdown was still invoked on every stage, in
\* reverse order.
C10_ShutdownErrorsContained ==
  (WorkerEnded /\ ValidFactories /\ StagesRun
     /\ \E k \in 1..NumStages : w_stage_factory.list[k].shutdown = "raise") =>
    /\ w_pc = "returned"
    /\ CallsOf("shutdown") =
         [k \in 1..NumStages |->
            [op |-> "shutdown", stage |-> NumStages + 1 - k,
             ctx |-> NumStages + 1 - k, arg |-> None]]

\* ============================================================ claims C11-C13
\* Both factory arguments are lists, but of different lengths, or some
\* factory yields an object that is not a StageInterface / PipelineContext.
BadConfiguration ==
  /\ w_stage_factory # None /\ w_ctx_factory # None
  /\ \/ Len(w_stage_factory.list) # Len(w_ctx_factory.list)
     \/ \E k \in 1..Len(w_stage_factory.list) : ~w_stage_factory.list[k].isinstance
     \/ \E k \in 1..Len(w_ctx_factory.list) : ~w_ctx_factory.list[k].isinstance

\* C11: a bad configuration makes worker_thread fail with ValueError before
\* any batch is read or processed; equal-length lists of valid factories
\* never end in a configuration error (ValueError).
C11_ConfigurationErrors ==
  WorkerEnded =>
    /\ BadConfiguration =>
         /\ w_pc = "raised" /\ w_exc = [type |-> "ValueError"]
         /\ w_entries = 0 /\ CallsOf("process_batch") = <<>>
    /\ ValidFactories => w_exc # [type |-> "ValueError"]

NoStages(factory) == factory = None \/ factory = List(<<>>)

\* C12: a worker given no stages (factories left at None, or empty lists)
\* reads every batch of the chunk, calls no stage operation and returns.
C12_NoStagesIsNoOp ==
  (WorkerEnded /\ NoStages(w_stage_factory) /\ NoStages(w_ctx_factory)) =>
    /\ w_pc = "returned"
    /\ AllBatchesProcessed /\ w_gen = <<>>
    /\ w_calls = <<>>

\* The batches batch_generator cuts the chunk's records into.
RECURSIVE BatchesOf(_, _)
BatchesOf(records, size) ==
  IF records = <<>> THEN <<>>
  ELSE <<SubSeq(records, 1, Min(size, Len(records)))>>
         \o BatchesOf(SubSeq(records, Min(size, Len(records)) + 1, Len(records)), size)

\* What stage k is handed for `batch`: the entry parser's result for the
\* first stage, the previous stage's return value for the others.
RECURSIVE StageInput(_, _)
StageInput(batch, k) ==
  IF k = 1 THEN _make_entry_stage_from_generator(List(batch)).value
  ELSE [StageResult(k - 1, "stage output") EXCEPT
          !.success = StageInput(batch, k - 1).success]

\* The process_batch calls of a whole run: batch after batch, and inside a
\* batch stage after stage.
ExpectedProcessCalls ==
  LET batches == BatchesOf(w_records, w_batch_size)
      n == NumStages
  IN  [j \in 1..(Len(batches) * n) |->
         LET b == ((j - 1) \div n) + 1
             k == ((j - 1) % n) + 1
         IN  [op |-> "process_batch", stage |-> k, ctx |-> k,
              arg |-> StageInput(batches[b], k)]]

\* C13: in a finished run with valid factories whose stages all return a
\* result, every batch went through every stage exactly once in pipeline
\* order, stage 1 receiving the entry parser's StageResult and stage k+1 the
\* value stage k returned, one batch completely before the next.
C13_BatchesFoldedThroughStages ==
  (WorkerEnded /\ ValidFactories
     /\ \A k \in 1..NumStages : w_stage_factory.list[k] = GoodStage) =>
    CallsOf("process_batch") = ExpectedProcessCalls

\* ============================================================ process_chunks_in_pool
\* The argument tuple process_chunks_in_pool builds for chunk number i.
WorkerArgs(chunk_list, i) ==
  [file_name |-> chunk_list[i].file_name, start |-> chunk_list[i].start,
   end |-> chunk_list[i].end, batch_size |-> 250, thread_name |-> i - 1]

\* Pool._map_async: the chunksize starmap picks when none is given.
MapChunksize(len, processes) ==
  IF len = 0 THEN 0
  ELSE (len \div (processes * 4)) + (IF len % (processes * 4) # 0 THEN 1 ELSE 0)

\* Pool._get_tasks: the task indices cut into batches of `size`.
RECURSIVE GetTasks(_, _)
GetTasks(indices, size) ==
  IF indices = <<>> \/ size = 0 THEN <<>>
  ELSE <<SubSeq(indices, 1, Min(size, Len(indices)))>>
         \o GetTasks(SubSeq(indices, Min(size, Len(indices)) + 1, Len(indices)), size)

\* p.starmap(worker_thread, [...]) is entered: the tasks are queued in
\* batches and the caller blocks on the MapResult.
PoolStarmap ==
  /\ p_pc = "call"
  /\ LET len == Len(p_chunks)
         size == MapChunksize(len, p_n)
         batches == GetTasks([i \in 1..len |-> i], size)
     IN  /\ p_queue' = batches
         /\ p_left' = Len(batches)
  /\ p_pc' = "mapping"
  /\ UNCHANGED <<p_chunks, p_n, p_outcome, p_proc, p_calls, p_finished, p_success>>
  /\ UNCHANGED <<chunkerVars, ctorVars, batchVars, entryVars, workerVars, lockVars, resultVars, copyVars, stageVars, handlerVars, listVars>>

\* An idle pool process takes the next task batch from the queue.
ProcGet(w) ==
  /\ p_pc = "mapping" /\ p_proc[w] = None /\ p_queue # <<>>
  /\ p_proc' = [p_proc EXCEPT ![w] = [batch |-> Head(p_queue), pos |-> 1, running |-> FALSE]]
  /\ p_queue' = Tail(p_queue)
  /\ UNCHANGED <<p_chunks, p_n, p_outcome, p_calls, p_finished, p_left, p_success, p_pc>>
  /\ UNCHANGED <<chunkerVars, ctorVars, batchVars, entryVars, workerVars, lockVars, resultVars, copyVars, stageVars, handlerVars, listVars>>

\* starmapstar calls worker_thread on the next task of the batch.
WorkerCall(w) ==
  /\ p_pc = "mapping" /\ p_proc[w] # None /\ ~p_proc[w].running
  /\ p_proc' = [p_proc EXCEPT ![w].running = TRUE]
  /\ p_calls' = Append(p_calls, WorkerArgs(p_chunks, p_proc[w].batch[p_proc[w].pos]))
  /\ UNCHANGED <<p_chunks, p_n, p_outcome, p_queue, p_finished, p_left, p_success, p_pc>>
  /\ UNCHANGED <<chunkerVars, ctorVars, batchVars, entryVars, workerVars, lockVars, resultVars, copyVars, stageVars, handlerVars, listVars>>

\* worker_thread ends.  A return moves starmapstar to the next task of the
\* batch; an exception leaves starmapstar, so the rest of the batch is
\* dropped and the batch is reported as failed.
WorkerEnd(w) ==
  /\ p_pc = "mapping" /\ p_proc[w] # None /\ p_proc[w].running
  /\ LET t == p_proc[w]
         i == t.batch[t.pos]
     IN  /\ p_finished' = p_finished \cup {i}
         /\ IF p_outcome[i] = "returns" /\ t.pos < Len(t.batch)
            THEN /\ p_proc' = [p_proc EXCEPT ![w] = [t EXCEPT !.pos = t.pos + 1,
                                                               !.running = FALSE]]
                 /\ UNCHANGED <<p_left, p_success>>
            ELSE /\ p_proc' = [p_proc EXCEPT ![w] = None]
                 /\ p_left' = p_left - 1
                 /\ p_success' = (p_success /\ p_outcome[i] = "returns")
  /\ UNCHANGED <<p_chunks, p_n, p_outcome, p_queue, p_calls, p_pc>>
  /\ UNCHANGED <<chunkerVars, ctorVars, batchVars, entryVars, workerVars, lockVars, resultVars, copyVars, stageVars, handlerVars, listVars>>

\* MapResult is ready once every batch is reported; starmap returns or
\* re-raises the first exception, and the `with` block ends the pool.
PoolReturn ==
  /\ p_pc = "mapping" /\ p_left = 0
  /\ p_pc' = IF p_success THEN "returned" ELSE "raised"
  /\ UNCHANGED <<p_chunks, p_n, p_outcome, p_queue, p_proc, p_calls, p_finished,
                 p_left, p_success>>
  /\ UNCHANGED <<chunkerVars, ctorVars, batchVars, entryVars, workerVars, lockVars, resultVars, copyVars, stageVars, handlerVars, listVars>>

InitPool ==
  /\ \E len \in 0..MaxPoolChunks :
       /\ p_chunks = [i \in 1..len |-> ChunkInit(FileName, i - 1, i).attrs]
       /\ p_outcome \in [1..len -> {"returns", "raises"}]
  /\ p_n \in 1..MaxProcs
  /\ p_queue = <<>> /\ p_proc = [w \in 1..p_n |-> None]
  /\ p_calls = <<>> /\ p_finished = {} /\ p_left = 0 /\ p_success = TRUE
  /\ p_pc = "call"
  /\ IdleChunker /\ IdleCtor /\ IdleBatch /\ IdleEntry /\ IdleWorker /\ IdleLocks /\ IdleResult /\ IdleCopy /\ IdleStage /\ IdleHandler /\ IdleLists

NextPool ==
  \/ PoolStarmap
  \/ \E w \in 1..p_n : ProcGet(w)
  \/ \E w \in 1..p_n : WorkerCall(w)
  \/ \E w \in 1..p_n : WorkerEnd(w)
  \/ PoolReturn

SpecPool == InitPool /\ [][NextPool]_vars

\* ============================================================ claims C14-C15
PoolEnded == p_pc \in {"returned", "raised"}
Running == {w \in 1..p_n : p_proc[w] # None /\ p_proc[w].running}

\* C14: process_chunks_in_pool runs worker_thread exactly once per chunk, with
\* that chunk's (file_name, start, end); never more than num_threads workers
\* run at once; and it ends only after every worker has finished.
C14_OneWorkerPerChunk ==
  /\ Cardinality(Running) <= p_n
  /\ PoolEnded =>
       /\ Running = {}
       /\ \A i \in 1..Len(p_chunks) :
            /\ Cardinality({j \in 1..Len(p_calls) :
                 /\ p_calls[j].file_name = p_chunks[i].file_name
                 /\ p_calls[j].start = p_chunks[i].start
                 /\ p_calls[j].end = p_chunks[i].end}) = 1
            /\ i \in p_finished

\* C15: a fatal error in one chunk's worker leaves the workers of all other
\* chunks unaffected: each of them has run to completion when the pool ends.
C15_FatalErrorIsolated ==
  PoolEnded =>
    \A i \in 1..Len(p_chunks) :
      p_outcome[i] = "returns" =>
        /\ i \in p_finished
        /\ \E j \in 1..Len(p_calls) : p_calls[j] = WorkerArgs(p_chunks, i)

\* ============================================================ write_shutdown_info
\* A path, as a value that can be told apart from None.
PathOf(text) == [path |-> text]

\* The file_path arguments: two spellings of one file, and another file.
RawPaths == {PathOf("out/a.log"), PathOf("out/../out/a.log"), PathOf("tmp/b.log")}

\* Path(file_path).expanduser().resolve()
Resolve(file_path) ==
  CASE file_path = PathOf("out/a.log")        -> PathOf("/cwd/out/a.log")
    [] file_path = PathOf("out/../out/a.log") -> PathOf("/cwd/out/a.log")
    [] file_path = PathOf("tmp/b.log")        -> PathOf("/cwd/tmp/b.log")

\* p.parent
Parent(p) ==
  CASE p = PathOf("/cwd/out/a.log") -> PathOf("/cwd/out")
    [] p = PathOf("/cwd/tmp/b.log") -> PathOf("/cwd/tmp")

\* The n-th threading.Lock object created.
LockObject(n) == [lock |-> n]

\* A dict lookup with a default for a missing key.
Get(map, key, default) == IF key \in DOMAIN map THEN map[key] ELSE default

\* A dict after map[key] = value.
Put(map, key, value) ==
  [k \in DOMAIN map \cup {key} |-> IF k = key THEN value ELSE map[k]]

\* The body of _get_lock_for_path run under _file_locks_lock: the lock
\* registered for `path`, a new lock object being made and registered when
\* there is none.  Lock objects are numbered in creation order.
_get_lock_for_path_always_new(file_locks, held, path) ==
  [lock |-> LockObject(Len(held) + 1),
   file_locks |-> Put(file_locks, path, LockObject(Len(held) + 1)),
   held |-> Append(held, 0)]

_get_lock_for_path(file_locks, held, path) ==
  LET lock == Get(file_locks, path, None)
  IN  IF lock = None
      THEN [lock |-> LockObject(Len(held) + 1),
            file_locks |-> Put(file_locks, path, LockObject(Len(held) + 1)),
            held |-> Append(held, 0)]
      ELSE [lock |-> lock, file_locks |-> file_locks, held |-> held]

\* write_shutdown_info is entered: a missing path is rejected, otherwise the
\* path is normalized and its parent directories are created.
WsiCall(t) ==
  /\ l_pc[t] = "call"
  /\ IF l_path[t] = None
     THEN /\ l_pc' = [l_pc EXCEPT ![t] = "raised"]
          /\ UNCHANGED <<l_p, l_dirs>>
     ELSE /\ l_p' = [l_p EXCEPT ![t] = Resolve(l_path[t])]
          /\ l_dirs' = l_dirs \cup {Parent(Resolve(l_path[t]))}
          /\ l_pc' = [l_pc EXCEPT ![t] = "get_lock"]
  /\ UNCHANGED <<l_n, l_path, l_lock, l_file_locks, l_maplock, l_held, l_files>>
  /\ UNCHANGED <<chunkerVars, ctorVars, batchVars, entryVars, workerVars, poolVars, resultVars, copyVars, stageVars, handlerVars, listVars>>

\* _get_lock_for_path: `with _file_locks_lock:` is entered.
GetLockEnter(t) ==
  /\ l_pc[t] = "get_lock" /\ l_maplock = 0
  /\ l_maplock' = t
  /\ l_pc' = [l_pc EXCEPT ![t] = "in_get_lock"]
  /\ UNCHANGED <<l_n, l_path, l_p, l_lock, l_file_locks, l_held, l_files, l_dirs>>
  /\ UNCHANGED <<chunkerVars, ctorVars, batchVars, entryVars, workerVars, poolVars, resultVars, copyVars, stageVars, handlerVars, listVars>>

\* _get_lock_for_path: the lock is looked up or created, the registry lock
\* is released by the return.
GetLockReturn(t) ==
  /\ l_pc[t] = "in_get_lock"
  /\ LET r == _get_lock_for_path(l_file_locks, l_held, l_p[t])
     IN  /\ l_lock' = [l_lock EXCEPT ![t] = r.lock]
         /\ l_file_locks' = r.file_locks
         /\ l_held' = r.held
  /\ l_maplock' = 0
  /\ l_pc' = [l_pc EXCEPT ![t] = "acquire"]
  /\ UNCHANGED <<l_n, l_path, l_p, l_files, l_dirs>>
  /\ UNCHANGED <<chunkerVars, ctorVars, batchVars, entryVars, workerVars, poolVars, resultVars, copyVars, stageVars, handlerVars, listVars>>

\* `with lock:` is entered and the file is opened for appending.
Acquire(t) ==
  /\ l_pc[t] = "acquire" /\ l_held[l_lock[t].lock] = 0
  /\ l_held' = [l_held EXCEPT ![l_lock[t].lock] = t]
  /\ l_files' = Put(l_files, l_p[t], Get(l_files, l_p[t], <<>>))
  /\ l_pc' = [l_pc EXCEPT ![t] = "write_text"]
  /\ UNCHANGED <<l_n, l_path, l_p, l_lock, l_file_locks, l_maplock, l_dirs>>
  /\ UNCHANGED <<chunkerVars, ctorVars, batchVars, entryVars, workerVars, poolVars, resultVars, copyVars, stageVars, handlerVars, listVars>>

\* fh.write(text)
WriteText(t) ==
  /\ l_pc[t] = "write_text"
  /\ l_files' = [l_files EXCEPT ![l_p[t]] = Append(@, [by |-> t, piece |-> "text"])]
  /\ l_pc' = [l_pc EXCEPT ![t] = "write_newline"]
  /\ UNCHANGED <<l_n, l_path, l_p, l_lock, l_file_locks, l_maplock, l_held, l_dirs>>
  /\ UNCHANGED <<chunkerVars, ctorVars, batchVars, entryVars, workerVars, poolVars, resultVars, copyVars, stageVars, handlerVars, listVars>>

\* fh.write("\n")
WriteNewline(t) ==
  /\ l_pc[t] = "write_newline"
  /\ l_files' = [l_files EXCEPT ![l_p[t]] = Append(@, [by |-> t, piece |-> "newline"])]
  /\ l_pc' = [l_pc EXCEPT ![t] = "release"]
  /\ UNCHANGED <<l_n, l_path, l_p, l_lock, l_file_locks, l_maplock, l_held, l_dirs>>
  /\ UNCHANGED <<chunkerVars, ctorVars, batchVars, entryVars, workerVars, poolVars, resultVars, copyVars, stageVars, handlerVars, listVars>>

\* The file is closed and the `with lock:` block is left.
Release(t) ==
  /\ l_pc[t] = "release"
  /\ l_held' = [l_held EXCEPT ![l_lock[t].lock] = 0]
  /\ l_pc' = [l_pc EXCEPT ![t] = "returned"]
  /\ UNCHANGED <<l_n, l_path, l_p, l_lock, l_file_locks, l_maplock, l_files, l_dirs>>
  /\ UNCHANGED <<chunkerVars, ctorVars, batchVars, entryVars, workerVars, poolVars, resultVars, copyVars, stageVars, handlerVars, listVars>>

InitLocks ==
  /\ l_n \in 1..MaxThreads
  /\ l_path \in [1..l_n -> RawPaths \cup {None}]
  /\ l_pc = [t \in 1..l_n |-> "call"]
  /\ l_p = [t \in 1..l_n |-> None]
  /\ l_lock = [t \in 1..l_n |-> None]
  /\ l_file_locks = <<>> /\ l_maplock = 0 /\ l_held = <<>>
  /\ l_files = <<>> /\ l_dirs = {}
  /\ IdleChunker /\ IdleCtor /\ IdleBatch /\ IdleEntry /\ IdleWorker /\ IdlePool /\ IdleResult /\ IdleCopy /\ IdleStage /\ IdleHandler /\ IdleLists

NextLocks ==
  \/ \E t \in 1..l_n : WsiCall(t)
  \/ \E t \in 1..l_n : GetLockEnter(t)
  \/ \E t \in 1..l_n : GetLockReturn(t)
  \/ \E t \in 1..l_n : Acquire(t)
  \/ \E t \in 1..l_n : WriteText(t)
  \/ \E t \in 1..l_n : WriteNewline(t)
  \/ \E t \in 1..l_n : Release(t)

\* The threads are scheduled by the operating system: while some thread can
\* take a step, a step is eventually taken.
SpecLocks == InitLocks /\ [][NextLocks]_vars /\ WF_vars(NextLocks)

\* ============================================================ claim C16
SameFile(t, u) ==
  /\ l_path[t] # None /\ l_path[u] # None
  /\ Resolve(l_path[t]) = Resolve(l_path[u])
HasLock(t) == l_pc[t] \in {"acquire", "write_text", "write_newline", "release", "returned"}
InAppend(t) == l_pc[t] \in {"write_text", "write_newline", "release"}
PiecesBy(t, content) == {i \in 1..Len(content) : content[i].by = t}

C16_Safety ==
  \* calls for one file hold the same lock object; one lock per path
  /\ \A t, u \in 1..l_n :
       (HasLock(t) /\ HasLock(u) /\ SameFile(t, u)) => l_lock[t] = l_lock[u]
  /\ Len(l_held) = Cardinality(DOMAIN l_file_locks)
  \* at most one call per file inside the append section
  /\ \A t, u \in 1..l_n :
       (t # u /\ InAppend(t) /\ InAppend(u)) => ~SameFile(t, u)
  \* a text is directly followed by its own newline
  /\ \A p \in DOMAIN l_files : \A i \in 1..Len(l_files[p]) :
       LET x == l_files[p][i]
       IN  IF x.piece = "text"
           THEN IF i = Len(l_files[p])
                THEN l_pc[x.by] = "write_newline"
                ELSE l_files[p][i + 1] = [by |-> x.by, piece |-> "newline"]
           ELSE i > 1 /\ l_files[p][i - 1] = [by |-> x.by, piece |-> "text"]
  \* a completed call has left exactly its text and newline in its file
  /\ \A t \in 1..l_n :
       l_pc[t] = "returned" =>
         /\ Cardinality(PiecesBy(t, l_files[l_p[t]])) = 2
         /\ l_p[t] = Resolve(l_path[t])
  \* a call waits for the per-path lock only behind a call for the same file
  /\ \A t \in 1..l_n :
       (l_pc[t] = "acquire" /\ l_held[l_lock[t].lock] # 0) =>
         SameFile(t, l_held[l_lock[t].lock])

AllCallsEnded == \A t \in 1..l_n : l_pc[t] \in {"returned", "raised"}

\* C16: threads calling write_shutdown_info with paths that normalize to the
\* same absolute path all get the same lock, and only one lock exists per
\* path; at most one of them is in the append section at a time, so text and
\* newline of a call are contiguous in the file; no call's text is lost; calls
\* for different paths never wait for each other on the per-path lock; and
\* every call eventually ends.
C16_PerPathLock == []C16_Safety /\ <>AllCallsEnded

\* Three calls have ended; two of them named one file by different spellings
\* and both their lines are in it.
C16_Witness ==
  /\ l_n = 3 /\ AllCallsEnded
  /\ \E t, u \in 1..l_n :
       /\ l_path[t] # l_path[u] /\ SameFile(t, u)
       /\ l_pc[t] = "returned" /\ l_pc[u] = "returned"
       /\ Len(l_files[l_p[t]]) >= 4

\* ============================================================ validation stages
\* Ok(value) / Err(err) of models/results/types.py
Ok(value) == [wrap |-> "Ok", value |-> value]
Err(err) == [wrap |-> "Err", value |-> err]

\* A str attribute value, as a value that can be told apart from None.
Str(chars) == [str |-> chars]

\* The EditionRecord attributes the stages read.
EditionRecord(ol_id, ocaid, title, publishing_date, copyright_date, authors, languages) ==
  [class |-> "EditionRecord", ol_id |-> ol_id, ocaid |-> ocaid, title |-> title,
   publishing_date |-> publishing_date, copyright_date |-> copyright_date,
   authors |-> authors, languages |-> languages]

EditionSamples ==
  {EditionRecord(Str(<<"a">>), Str(<<"b">>), Str(<<"a">>), 1990, -1, <<>>, <<"eng">>),
   EditionRecord(Str(<<"a">>), Str(<<>>), Str(<<"a">>), 1990, -1, <<>>, <<"eng">>),
   EditionRecord(Str(<<"a">>), Str(<<"b">>), Str(<<"T">>), -1, 1990, <<>>, <<"zzz">>),
   EditionRecord(Str(<<"a">>), Str(<<"b">>), Str(<<"a">>), -1, -1, <<>>, <<>>),
   EditionRecord(Str(<<"a">>), Str(<<"b">>), None, -1, -1, <<"OL1A">>, <<"zzz", "eng">>)}

\* StageResult.success_values: [r.ok_value() for r in self.success]
success_values(result) ==
  IF \A k \in 1..Len(result.success) : "wrap" \in DOMAIN result.success[k]
  THEN [raised |-> "none",
        value |-> [k \in 1..Len(result.success) |-> result.success[k].value]]
  ELSE [raised |-> "AttributeError", value |-> None]

\* EditionFieldValidation._validate_string_field
_validate_string_field(field_value) ==
  field_value # None /\ Strip(field_value.str) # <<>>

\* EditionFieldValidation._has_necessary_attributes
_has_necessary_attributes(record) ==
  IF ~_validate_string_field(record.ol_id) THEN FALSE
  ELSE IF ~_validate_string_field(record.ocaid) THEN FALSE
  ELSE IF ~_validate_string_field(record.title) THEN FALSE
  ELSE IF record.publishing_date = -1 /\ record.copyright_date = -1
            /\ Len(record.authors) < 1
       THEN FALSE
       ELSE TRUE

RECURSIVE FieldsLoop(_, _)
FieldsLoop(records, results) ==
  IF records = <<>> THEN results
  ELSE FieldsLoop(Tail(records),
                  IF _has_necessary_attributes(Head(records))
                  THEN add_ok(results, Ok(Head(records)))
                  ELSE add_err(results, Err([type |-> "str", text |-> "Invalid record"])))

\* EditionFieldValidation.process_batch
FieldsProcessBatch(stage_id, stage_data) ==
  LET results == StageResult(stage_id, "Edition Field Validation Results")
  IN  IF stage_data = None THEN [raised |-> "none", value |-> results]
      ELSE LET values == success_values(stage_data)
           IN  IF values.raised # "none"
               THEN [raised |-> values.raised, value |-> None]
               ELSE [raised |-> "none", value |-> FieldsLoop(values.value, results)]

\* EditionLanguageValidationStage._is_valid_language
_is_valid_language(languages, language_code, any_language) ==
  IF language_code = {} THEN FALSE
  ELSE IF any_language THEN Cardinality(language_code) >= 1
  ELSE \E code \in language_code : code \in languages

RECURSIVE LanguageLoop(_, _, _, _)
LanguageLoop(records, results, languages, any_language) ==
  IF records = <<>> THEN results
  ELSE LET record_languages ==   \* getattr(record, 'languages', [])
             IF "languages" \in DOMAIN Head(records) THEN Head(records).languages ELSE <<>>
           codes == {record_languages[k] : k \in 1..Len(record_languages)}
       IN  LanguageLoop(Tail(records),
                        IF _is_valid_language(languages, codes, any_language)
                        THEN add_ok(results, Head(records))
                        ELSE add_err(results, [type |-> "str", text |-> "Invalid record"]),
                        languages, any_language)

\* EditionLanguageValidationStage.process_batch
LanguageProcessBatch(stage_id, languages, stage_data, any_language) ==
  LET results == StageResult(stage_id, "Edition Language Validation Results")
  IN  IF stage_data = None THEN [raised |-> "none", value |-> results]
      ELSE LET values == success_values(stage_data)
           IN  IF values.raised # "none"
               THEN [raised |-> values.raised, value |-> None]
               ELSE [raised |-> "none",
                     value |-> LanguageLoop(values.value, results, languages, any_language)]

\* ============================================================ StageResult in use
\* The StageResult objects a stage can be handed.
StageInputs ==
  {None} \cup
  {[StageResultInit("previous", "details", f) EXCEPT !.success = succ, !.failed = fl] :
     f \in BOOLEAN,
     succ \in SeqsUpTo({Ok(r) : r \in EditionSamples}, MaxRecords),
     fl \in {<<>>, <<Err([type |-> "str", text |-> "Invalid record"])>>}}

\* Every way a StageResult comes into being in this repository, with the
\* has_failed value its constructor call was given.
Created ==
  {[origin |-> "constructed", flag |-> f, result |-> StageResultInit("stage", "details", f)] :
     f \in BOOLEAN}
  \cup
  {[origin |-> "entry", flag |-> FALSE,
    result |-> _make_entry_stage_from_generator(List(data)).value] :
     data \in SeqsUpTo(TransportRecords, MaxRecords)}
  \cup
  {[origin |-> "fields", flag |-> FALSE, result |-> FieldsProcessBatch("stage-1", d).value] :
     d \in {x \in StageInputs : FieldsProcessBatch("stage-1", x).raised = "none"}}
  \cup
  {[origin |-> "language", flag |-> FALSE,
    result |-> LanguageProcessBatch("stage-2", {"eng"}, d, a).value] :
     d \in {x \in StageInputs : LanguageProcessBatch("stage-2", {"eng"}, x, TRUE).raised = "none"},
     a \in BOOLEAN}

SomeRecord ==
  EditionRecord(Str(<<"a">>), Str(<<"b">>), Str(<<"a">>), 1990, -1, <<>>, <<"eng">>)

InitResult ==
  /\ \E c \in Created :
       /\ sr = c.result /\ sr_initial = c.result
       /\ sr_origin = c.origin /\ sr_flag = c.flag
  /\ sr_ok_calls = 0 /\ sr_err_calls = 0
  /\ IdleChunker /\ IdleCtor /\ IdleBatch /\ IdleEntry /\ IdleWorker /\ IdlePool /\ IdleLocks /\ IdleCopy /\ IdleStage /\ IdleHandler /\ IdleLists

\* result.add_ok(Ok(record))
SrAddOk ==
  /\ sr_ok_calls + sr_err_calls < MaxOps
  /\ sr' = add_ok(sr, Ok(SomeRecord))
  /\ sr_ok_calls' = sr_ok_calls + 1
  /\ UNCHANGED <<sr_origin, sr_initial, sr_err_calls, sr_flag>>
  /\ UNCHANGED <<chunkerVars, ctorVars, batchVars, entryVars, workerVars, poolVars, lockVars, copyVars, stageVars, handlerVars, listVars>>

\* result.add_err(Err(message))
SrAddErr ==
  /\ sr_ok_calls + sr_err_calls < MaxOps
  /\ sr' = add_err(sr, Err([type |-> "str", text |-> "Invalid record"]))
  /\ sr_err_calls' = sr_err_calls + 1
  /\ UNCHANGED <<sr_origin, sr_initial, sr_ok_calls, sr_flag>>
  /\ UNCHANGED <<chunkerVars, ctorVars, batchVars, entryVars, workerVars, poolVars, lockVars, copyVars, stageVars, handlerVars, listVars>>

\* result.mark_failed(value)
SrMarkFailed ==
  /\ \E value \in BOOLEAN : sr' = mark_failed(sr, value) /\ sr_flag' = value
  /\ UNCHANGED <<sr_origin, sr_initial, sr_ok_calls, sr_err_calls>>
  /\ UNCHANGED <<chunkerVars, ctorVars, batchVars, entryVars, workerVars, poolVars, lockVars, copyVars, stageVars, handlerVars, listVars>>

\* result.has_failed = value
SrSetHasFailed ==
  /\ \E value \in BOOLEAN : sr' = mark_failed(sr, value) /\ sr_flag' = value
  /\ UNCHANGED <<sr_origin, sr_initial, sr_ok_calls, sr_err_calls>>
  /\ UNCHANGED <<chunkerVars, ctorVars, batchVars, entryVars, workerVars, poolVars, lockVars, copyVars, stageVars, handlerVars, listVars>>

NextResult == SrAddOk \/ SrAddErr \/ SrMarkFailed \/ SrSetHasFailed

SpecResult == InitResult /\ [][NextResult]_vars

\* ============================================================ claims C17-C18
\* C17: after any sequence of add_ok / add_err calls, len(result) is
\* len(success) + len(failed); a StageResult that started empty holds as many
\* successes as add_ok calls and as many failures as add_err calls were made
\* (one that was handed over with elements holds those in addition), and
\* summary() reports the same three counts.
C17_LengthCountsCalls ==
  /\ ResultLen(sr) = Len(sr.success) + Len(sr.failed)
  /\ Len(sr.success) = Len(sr_initial.success) + sr_ok_calls
  /\ Len(sr.failed) = Len(sr_initial.failed) + sr_err_calls
  /\ (sr_origin = "constructed") => ResultLen(sr) = sr_ok_calls + sr_err_calls
  /\ summary(sr).total_processed = ResultLen(sr)
  /\ summary(sr).total_success = Len(sr.success)
  /\ summary(sr).total_failed = Len(sr.failed)

C17_Witness ==
  /\ sr_origin = "constructed"
  /\ sr_ok_calls = 2 /\ sr_err_calls = 2 /\ ResultLen(sr) = 4

\* C18: has_failed is the value given at construction or by the last
\* mark_failed / setter call, whatever number of failures is recorded; the
\* entry parser and the stages hand over their result with has_failed False.
C18_HasFailedIndependentOfFailures ==
  /\ sr.has_failed = sr_flag
  /\ summary(sr).has_failed = sr_flag
  /\ (sr_origin # "constructed") => ~sr_initial.has_failed

C18_Witness ==
  /\ sr_origin \in {"entry", "fields", "language"}
  /\ Len(sr_initial.failed) > 0 /\ sr_err_calls > 0
  /\ ~sr.has_failed

\* ============================================================ utility.copy_lines
CR == <<"R">>
CopyLineContents == {<<>>, <<"a">>, <<"W", "T">>}

\* line.rstrip("\r\n")
RECURSIVE RStripNewlines(_)
RStripNewlines(cs) ==
  IF cs # <<>> /\ cs[Len(cs)] \in {"R", "N"}
  THEN RStripNewlines(SubSeq(cs, 1, Len(cs) - 1))
  ELSE cs

\* dst.open(mode): the content the writes are appended to.
OpenDst_keeps_content(dst, append) == IF dst # None THEN dst.bytes ELSE <<>>
OpenDst(dst, append) == IF append /\ dst # None THEN dst.bytes ELSE <<>>

\* for _ in range(start): fin.readline(), giving up at end of file.
RECURSIVE SkipLines(_, _)
SkipLines(rest, start) ==
  IF start = 0 THEN [eof |-> FALSE, rest |-> rest]
  ELSE IF rest = <<>> THEN [eof |-> TRUE, rest |-> rest]
  ELSE SkipLines(Tail(rest), start - 1)

\* while written < max_lines: readline, strip, write text + "\n"
RECURSIVE CopyLoop(_, _, _, _)
CopyLoop(rest, written, out, max_lines) ==
  IF written < max_lines /\ rest # <<>>
  THEN CopyLoop(Tail(rest), written + 1,
                out \o Encode(RStripNewlines(Head(rest)) \o <<"N">>), max_lines)
  ELSE [written |-> written, out |-> out]

copy_lines(src, dst, max_lines, start, append) ==
  IF max_lines < 0 \/ start < 0
  THEN [raised |-> "ValueError", ret |-> None, dst |-> dst]
  ELSE LET fin == TextLinesFrom(src, 0)
           fout == OpenDst(dst, append)
           skipped == SkipLines(fin, start)
       IN  IF skipped.eof
           THEN [raised |-> "none", ret |-> 0, dst |-> [bytes |-> fout]]
           ELSE LET copied == CopyLoop(skipped.rest, 0, fout, max_lines)
                IN  [raised |-> "none", ret |-> copied.written,
                     dst |-> [bytes |-> copied.out]]

InitCopy ==
  /\ cp_lines \in SeqsUpTo(CopyLineContents, MaxCopyLines)
  /\ \E eol \in {LF, CRLF, CR}, trailing \in BOOLEAN :
       \* an unterminated last line is not empty
       /\ trailing \/ (cp_lines # <<>> /\ cp_lines[Len(cp_lines)] # <<>>)
       /\ cp_src = FileBytes(cp_lines, eol, trailing)
  /\ cp_dst \in {None, [bytes |-> <<>>], [bytes |-> <<"b", "N">>], [bytes |-> <<"b">>]}
  /\ cp_max_lines \in -1..MaxCount
  /\ cp_start \in -1..MaxCount
  /\ cp_append \in BOOLEAN
  /\ cp_pc = "call" /\ cp_ret = None
  /\ IdleChunker /\ IdleCtor /\ IdleBatch /\ IdleEntry /\ IdleWorker /\ IdlePool /\ IdleLocks /\ IdleResult /\ IdleStage /\ IdleHandler /\ IdleLists

CopyLines ==
  /\ cp_pc = "call"
  /\ LET r == copy_lines(cp_src, cp_dst, cp_max_lines, cp_start, cp_append)
     IN  /\ cp_pc' = IF r.raised = "none" THEN "returned" ELSE "raised"
         /\ cp_ret' = r.ret
         /\ cp_dst' = r.dst
  /\ UNCHANGED <<cp_lines, cp_src, cp_max_lines, cp_start, cp_append>>
  /\ UNCHANGED <<chunkerVars, ctorVars, batchVars, entryVars, workerVars, poolVars, lockVars, resultVars, stageVars, handlerVars, listVars>>

NextCopy == CopyLines

SpecCopy == InitCopy /\ [][NextCopy]_vars

\* ============================================================ claim C19
Max(a, b) == IF a > b THEN a ELSE b

\* C19: for a source of T lines, max_lines >= 0 and start >= 0, copy_lines
\* returns n = min(max_lines, max(0, T - start)) and leaves in the
\* destination the source lines start .. start+n-1, each followed by one
\* "\n": alone when append is false, after the previous content when true.
C19_CopiesRequestedLines ==
  [][(CopyLines /\ cp_max_lines >= 0 /\ cp_start >= 0) =>
       LET T == Len(cp_lines)
           n == Min(cp_max_lines, Max(0, T - cp_start))
           copied == Flatten([k \in 1..n |-> Encode(cp_lines[cp_start + k]) \o <<"N">>])
           previous == IF cp_append /\ cp_dst # None THEN cp_dst.bytes ELSE <<>>
       IN  /\ cp_pc' = "returned"
           /\ cp_ret' = n
           /\ cp_dst' = [bytes |-> previous \o copied]]_vars

\* A copy from the middle of a "\r\n" file, cut short by max_lines, appended
\* to a destination that has content.
C19_Witness ==
  /\ cp_pc = "returned" /\ cp_append
  /\ Len(cp_lines) = 3 /\ cp_start = 1 /\ cp_ret = 1 /\ cp_max_lines = 1
  /\ cp_src = FileBytes(cp_lines, CRLF, TRUE)
  /\ cp_lines[2] = <<"W", "T">>
  /\ cp_dst = [bytes |-> <<"b", "N", "w0", "w1", "w2", "w3", "T", "N">>]

\* ============================================================ claim C20
\* The physical lines of the byte range [start, end) of f, as bytes with
\* their terminators, and as the text the reader gets for them.
ByteLinesIn(f, start, end) == SplitLines(SubSeq(f, start + 1, end), <<>>)
TextLinesIn(f, start, end) == TextLinesFrom(SubSeq(f, 1, end), start)

\* The records of the well-formed lines among `lines`.
RECURSIVE RecordsOf(_)
RecordsOf(lines) ==
  IF lines = <<>> THEN <<>>
  ELSE LET parts == Split(Strip(Head(lines)), "T", <<>>)
       IN  (IF Strip(Head(lines)) # <<>> /\ Len(parts) = 5
            THEN <<TransportRecord(parts[1], parts[2], parts[5])>> ELSE <<>>)
           \o RecordsOf(Tail(lines))

\* C20: for every chunk of the plan (a line-aligned byte range), the running
\* offset advances per line by that line's length in bytes, so that after
\* each line it is the byte offset of the line's end, and the chunk's stream
\* is exactly the records of the lines lying entirely inside [start, end).
C20_OffsetCountsBytes ==
  pc = "streamed" =>
    \A i \in 1..Len(chunks) :
      LET bytes == ByteLinesIn(file, chunks[i].start, chunks[i].end)
          text  == TextLinesIn(file, chunks[i].start, chunks[i].end)
      IN  /\ Len(text) = Len(bytes)
          /\ \A k \in 1..Len(text) : LineAdvance(text[k]) = Len(bytes[k])
          /\ streamed[i] = RecordsOf(text)

\* ============================================================ claim C21
\* The tab-separated fields of a physical line (its terminator left out).
FieldsOfLine(line) == Split(RStripNewlines(line), "T", <<>>)

\* One record per line of exactly 5 tab-separated fields, in file order.
RECURSIVE RecordsOfFiveFieldLines(_)
RecordsOfFiveFieldLines(lines) ==
  IF lines = <<>> THEN <<>>
  ELSE LET parts == FieldsOfLine(Head(lines))
       IN  (IF Len(parts) = 5
            THEN <<TransportRecord(parts[1], parts[2], parts[5])>> ELSE <<>>)
           \o RecordsOfFiveFieldLines(Tail(lines))

\* C21: streaming the whole file yields, in file order, one record (field 0,
\* field 1, field 4) for every line that has exactly 5 tab-separated fields,
\* also when its first or last field is empty, and nothing for other lines.
C21_FiveFieldLinesYieldRecords ==
  pc = "streamed" => whole = RecordsOfFiveFieldLines(TextLinesFrom(file, 0))

\* ============================================================ claim C22
IsOk(x) == "wrap" \in DOMAIN x /\ x.wrap = "Ok"
IsErr(x) == "wrap" \in DOMAIN x /\ x.wrap = "Err"

\* C22: a StageResult handed over by the entry parser or by one of the two
\* validation stages holds only Ok wrappers in success and only Err wrappers
\* in failed, so either stage can take it as input: success_values() does
\* not fail on it.
C22_ResultsHoldWrappers ==
  sr_origin \in {"entry", "fields", "language"} =>
    /\ \A k \in 1..Len(sr_initial.success) : IsOk(sr_initial.success[k])
    /\ \A k \in 1..Len(sr_initial.failed) : IsErr(sr_initial.failed[k])
    /\ FieldsProcessBatch("stage-1", sr_initial).raised = "none"
    /\ \A a \in BOOLEAN :
         LanguageProcessBatch("stage-2", {"eng"}, sr_initial, a).raised = "none"

\* ============================================================ stage calls in worker_thread
\* In no run of worker_thread is any stage operation ever called: a
\* non-empty pipeline fails in _initialize_stages before the first
\* initialize, and an empty pipeline has no stage to call.
NoStageOperationCalled == w_calls = <<>>

\* ============================================================ process_batch of the stages
\* What a stage can be handed in this repository: the entry parser's result,
\* the result of either stage, a result holding wrapped records, or None.
StageData ==
  StageInputs
  \cup {_make_entry_stage_from_generator(List(data)).value :
          data \in SeqsUpTo(TransportRecords, MaxRecords)}
  \cup {c.result : c \in {x \in Created : x.origin \in {"fields", "language"}}}

InitStage ==
  /\ st_stage \in {"fields", "language"}
  /\ st_data \in StageData
  /\ st_any \in BOOLEAN
  /\ st_pc = "call" /\ st_out = None
  /\ IdleChunker /\ IdleCtor /\ IdleBatch /\ IdleEntry /\ IdleWorker /\ IdlePool /\ IdleLocks /\ IdleResult /\ IdleCopy /\ IdleHandler /\ IdleLists

\* stage.process_batch(stage_data, ctx)
StageProcessBatch ==
  /\ st_pc = "call"
  /\ LET r == IF st_stage = "fields"
              THEN FieldsProcessBatch("stage-1", st_data)
              ELSE LanguageProcessBatch("stage-2", {"eng"}, st_data, st_any)
     IN  /\ st_pc' = IF r.raised = "none" THEN "returned" ELSE "raised"
         /\ st_out' = r.value
  /\ UNCHANGED <<st_stage, st_data, st_any>>
  /\ UNCHANGED <<chunkerVars, ctorVars, batchVars, entryVars, workerVars, poolVars, lockVars, resultVars, copyVars, handlerVars, listVars>>

NextStage == StageProcessBatch

SpecStage == InitStage /\ [][NextStage]_vars

\* ============================================================ claim C24
\* C24: for every StageResult R handed to process_batch of either stage, the
\* call returns a new StageResult with has_failed False whose length is
\* len(R.success), and leaves R as it was.
C24_OneOutcomePerInputSuccess ==
  [][(StageProcessBatch /\ st_data # None) =>
       /\ st_pc' = "returned"
       /\ ResultLen(st_out') = Len(st_data.success)
       /\ st_out'.stage_name # st_data.stage_name
       /\ ~st_out'.has_failed
       /\ st_data' = st_data]_vars

\* ============================================================ claim C25
\* C25: with batch_size <= 0 batch_generator yields no batch and ends with
\* an error, not by running to the end of its input.
C25_NonPositiveSizeRejected ==
  b_size <= 0 => (b_out = <<>> /\ b_pc # "exhausted")

\* ============================================================ claim C26
\* One iteration of the planning loop constructs its Chunk without error,
\* with start < end, and moves chunk_start strictly forward, never past the
\* end of the file.
C26_IterationAdvances ==
  GfcIterate =>
    /\ pc' = "loop"
    /\ chunk_start' > chunk_start
    /\ chunk_start' <= file_size
    /\ Len(chunks') = Len(chunks) + 1
    /\ chunks'[Len(chunks')].start = chunk_start
    /\ chunks'[Len(chunks')].start < chunks'[Len(chunks')].end

\* C26: with workers_used >= 1 the chunk-planning loop of get_file_chunks
\* terminates: every iteration strictly increases chunk_start, every Chunk
\* it constructs has start < end (no InvalidChunkBoundaryError), and the
\* loop is left by the return.
C26_PlanningLoopTerminates ==
  /\ [][C26_IterationAdvances]_vars
  /\ (pc = "loop") ~> (pc = "returned")

\* A returned plan for a file without trailing newline in which the ideal
\* chunk size is 0, and one in which a line is longer than the ideal size.
C26_Witness ==
  /\ pc = "returned"
  /\ file # <<>> /\ file[Len(file)] # "N"
  /\ \/ chunk_size = 0 /\ Len(chunks) >= 3
     \/ chunk_size >= 1 /\ Len(chunks) >= 2
          /\ \E i \in 1..Len(chunks) : chunks[i].end - chunks[i].start > chunk_size

\* ------------------------------------------------------------ BufferedFileHandler
Loggers == 1..MaxLoggers

\* The record of a thread's k-th call, and self.format(record).
LogRecord(t, k) == [thread |-> t, call |-> k]
Format(record) == [line |-> record]

\* _write_buffer: nothing to do for an empty buffer; otherwise one append
\* of all buffered lines, which the file system accepts or refuses, and
\* the buffer is cleared after a write that succeeded.
_write_buffer(buffer, f, disk_ok) ==
  IF buffer = <<>> THEN [raised |-> "none", buffer |-> buffer, file |-> f]
  ELSE IF disk_ok THEN [raised |-> "none", buffer |-> <<>>, file |-> f \o buffer]
       ELSE [raised |-> "OSError", buffer |-> buffer, file |-> f]

InitHandler ==
  /\ h_capacity \in 0..MaxCapacity
  /\ h_installed \in BOOLEAN
  /\ h_buffer = <<>>
  /\ h_file = <<>>
  /\ h_lock = 0
  /\ h_pc = [t \in Loggers |-> "idle"]
  /\ h_op = [t \in Loggers |-> "none"]
  /\ h_msg = [t \in Loggers |-> None]
  /\ h_nested = [t \in Loggers |-> FALSE]
  /\ h_count = [t \in Loggers |-> 0]
  /\ h_entered = <<>>
  /\ h_failed = FALSE
  /\ IdleChunker /\ IdleCtor /\ IdleBatch /\ IdleEntry /\ IdleWorker /\ IdlePool /\ IdleLocks /\ IdleResult /\ IdleCopy /\ IdleStage /\ IdleLists

\* emit(record): msg = self.format(record), before the lock is taken.
EmitCall(t) ==
  /\ h_pc[t] = "idle"
  /\ h_count[t] < MaxCalls
  /\ h_count' = [h_count EXCEPT ![t] = @ + 1]
  /\ h_op' = [h_op EXCEPT ![t] = "emit"]
  /\ h_msg' = [h_msg EXCEPT ![t] = Format(LogRecord(t, h_count[t] + 1))]
  /\ h_pc' = [h_pc EXCEPT ![t] = "emit_lock"]
  /\ UNCHANGED <<h_capacity, h_installed, h_buffer, h_file, h_lock, h_nested, h_entered, h_failed>>
  /\ UNCHANGED <<chunkerVars, ctorVars, batchVars, entryVars, workerVars, poolVars, lockVars, resultVars, copyVars, stageVars, listVars>>

\* `with self._lock:` of emit; threading.Lock is not reentrant.
EmitAcquire(t) ==
  /\ h_pc[t] = "emit_lock"
  /\ h_lock = 0
  /\ h_lock' = t
  /\ h_pc' = [h_pc EXCEPT ![t] = "emit_append"]
  /\ UNCHANGED <<h_capacity, h_installed, h_buffer, h_file, h_op, h_msg, h_nested, h_count, h_entered, h_failed>>
  /\ UNCHANGED <<chunkerVars, ctorVars, batchVars, entryVars, workerVars, poolVars, lockVars, resultVars, copyVars, stageVars, listVars>>

\* self._buffer.append(msg) and the capacity test, with `>` for `>=`.
EmitAppend_writes_late(t) ==
  /\ h_pc[t] = "emit_append"
  /\ h_buffer' = Append(h_buffer, h_msg[t])
  /\ h_entered' = Append(h_entered, h_msg[t])
  /\ h_pc' = [h_pc EXCEPT ![t] = IF Len(h_buffer') > h_capacity
                                 THEN "emit_write" ELSE "emit_release"]
  /\ UNCHANGED <<h_capacity, h_installed, h_file, h_lock, h_op, h_msg, h_nested, h_count, h_failed>>
  /\ UNCHANGED <<chunkerVars, ctorVars, batchVars, entryVars, workerVars, poolVars, lockVars, resultVars, copyVars, stageVars, listVars>>

\* self._buffer.append(msg); if len(self._buffer) >= self.capacity: ...
EmitAppend(t) ==
  /\ h_pc[t] = "emit_append"
  /\ h_buffer' = Append(h_buffer, h_msg[t])
  /\ h_entered' = Append(h_entered, h_msg[t])
  /\ h_pc' = [h_pc EXCEPT ![t] = IF Len(h_buffer') >= h_capacity
                                 THEN "emit_write" ELSE "emit_release"]
  /\ UNCHANGED <<h_capacity, h_installed, h_file, h_lock, h_op, h_msg, h_nested, h_count, h_failed>>
  /\ UNCHANGED <<chunkerVars, ctorVars, batchVars, entryVars, workerVars, poolVars, lockVars, resultVars, copyVars, stageVars, listVars>>

\* self._write_buffer() inside emit; an exception leaves the with block,
\* which releases the lock, and is caught by `except Exception`.
EmitWrite(t) ==
  /\ h_pc[t] = "emit_write"
  /\ \E disk_ok \in BOOLEAN :
       LET w == _write_buffer(h_buffer, h_file, disk_ok) IN
         /\ h_buffer' = w.buffer
         /\ h_file' = w.file
         /\ IF w.raised = "none"
            THEN /\ h_pc' = [h_pc EXCEPT ![t] = "emit_release"]
                 /\ UNCHANGED <<h_lock, h_failed>>
            ELSE /\ h_pc' = [h_pc EXCEPT ![t] = "emit_handle_error"]
                 /\ h_lock' = 0
                 /\ h_failed' = TRUE
  /\ UNCHANGED <<h_capacity, h_installed, h_op, h_msg, h_nested, h_count, h_entered>>
  /\ UNCHANGED <<chunkerVars, ctorVars, batchVars, entryVars, workerVars, poolVars, lockVars, resultVars, copyVars, stageVars, listVars>>

\* Where emit returns to: its caller, or flush's logging call.
AfterEmit(t) == IF h_nested[t] THEN "flush_release" ELSE "idle"

\* End of the with block of emit, and return.
EmitRelease(t) ==
  /\ h_pc[t] = "emit_release"
  /\ h_lock' = 0
  /\ h_pc' = [h_pc EXCEPT ![t] = AfterEmit(t)]
  /\ h_nested' = [h_nested EXCEPT ![t] = FALSE]
  /\ UNCHANGED <<h_capacity, h_installed, h_buffer, h_file, h_op, h_msg, h_count, h_entered, h_failed>>
  /\ UNCHANGED <<chunkerVars, ctorVars, batchVars, entryVars, workerVars, poolVars, lockVars, resultVars, copyVars, stageVars, listVars>>

\* self.handleError(record): reports on stderr, and emit returns.
EmitHandleError(t) ==
  /\ h_pc[t] = "emit_handle_error"
  /\ h_pc' = [h_pc EXCEPT ![t] = AfterEmit(t)]
  /\ h_nested' = [h_nested EXCEPT ![t] = FALSE]
  /\ UNCHANGED <<h_capacity, h_installed, h_buffer, h_file, h_lock, h_op, h_msg, h_count, h_entered, h_failed>>
  /\ UNCHANGED <<chunkerVars, ctorVars, batchVars, entryVars, workerVars, poolVars, lockVars, resultVars, copyVars, stageVars, listVars>>

\* flush() called by a thread.
FlushCall(t) ==
  /\ h_pc[t] = "idle"
  /\ h_count[t] < MaxCalls
  /\ h_count' = [h_count EXCEPT ![t] = @ + 1]
  /\ h_op' = [h_op EXCEPT ![t] = "flush"]
  /\ h_pc' = [h_pc EXCEPT ![t] = "flush_lock"]
  /\ UNCHANGED <<h_capacity, h_installed, h_buffer, h_file, h_lock, h_msg, h_nested, h_entered, h_failed>>
  /\ UNCHANGED <<chunkerVars, ctorVars, batchVars, entryVars, workerVars, poolVars, lockVars, resultVars, copyVars, stageVars, listVars>>

\* close(): try: self.flush() finally: super().close()
CloseCall(t) ==
  /\ h_pc[t] = "idle"
  /\ h_count[t] < MaxCalls
  /\ h_count' = [h_count EXCEPT ![t] = @ + 1]
  /\ h_op' = [h_op EXCEPT ![t] = "close"]
  /\ h_pc' = [h_pc EXCEPT ![t] = "flush_lock"]
  /\ UNCHANGED <<h_capacity, h_installed, h_buffer, h_file, h_lock, h_msg, h_nested, h_entered, h_failed>>
  /\ UNCHANGED <<chunkerVars, ctorVars, batchVars, entryVars, workerVars, poolVars, lockVars, resultVars, copyVars, stageVars, listVars>>

\* `with self._lock:` of flush.
FlushAcquire(t) ==
  /\ h_pc[t] = "flush_lock"
  /\ h_lock = 0
  /\ h_lock' = t
  /\ h_pc' = [h_pc EXCEPT ![t] = "flush_write"]
  /\ UNCHANGED <<h_capacity, h_installed, h_buffer, h_file, h_op, h_msg, h_nested, h_count, h_entered, h_failed>>
  /\ UNCHANGED <<chunkerVars, ctorVars, batchVars, entryVars, workerVars, poolVars, lockVars, resultVars, copyVars, stageVars, listVars>>

\* try: self._write_buffer() except Exception: go on to the logging call.
FlushWrite(t) ==
  /\ h_pc[t] = "flush_write"
  /\ \E disk_ok \in BOOLEAN :
       LET w == _write_buffer(h_buffer, h_file, disk_ok) IN
         /\ h_buffer' = w.buffer
         /\ h_file' = w.file
         /\ IF w.raised = "none"
            THEN /\ h_pc' = [h_pc EXCEPT ![t] = "flush_release"]
                 /\ UNCHANGED h_failed
            ELSE /\ h_pc' = [h_pc EXCEPT ![t] = "flush_log"]
                 /\ h_failed' = TRUE
  /\ UNCHANGED <<h_capacity, h_installed, h_lock, h_op, h_msg, h_nested, h_count, h_entered>>
  /\ UNCHANGED <<chunkerVars, ctorVars, batchVars, entryVars, workerVars, poolVars, lockVars, resultVars, copyVars, stageVars, listVars>>

\* logging.getLogger(__name__).exception(...), with self._lock held: the
\* record propagates to the root logger, whose handlers are called in the
\* same thread; if this handler is one of them its emit formats the record
\* and goes on to `with self._lock:`.
FlushLog(t) ==
  /\ h_pc[t] = "flush_log"
  /\ IF h_installed
     THEN /\ h_msg' = [h_msg EXCEPT ![t] = Format(LogRecord(t, 0))]
          /\ h_nested' = [h_nested EXCEPT ![t] = TRUE]
          /\ h_pc' = [h_pc EXCEPT ![t] = "emit_lock"]
     ELSE /\ h_pc' = [h_pc EXCEPT ![t] = "flush_release"]
          /\ UNCHANGED <<h_msg, h_nested>>
  /\ UNCHANGED <<h_capacity, h_installed, h_buffer, h_file, h_lock, h_op, h_count, h_entered, h_failed>>
  /\ UNCHANGED <<chunkerVars, ctorVars, batchVars, entryVars, workerVars, poolVars, lockVars, resultVars, copyVars, stageVars, listVars>>

\* End of the with block of flush; flush returns, to close or to the caller.
FlushRelease(t) ==
  /\ h_pc[t] = "flush_release"
  /\ h_lock' = 0
  /\ h_pc' = [h_pc EXCEPT ![t] = IF h_op[t] = "close" THEN "close_super" ELSE "idle"]
  /\ UNCHANGED <<h_capacity, h_installed, h_buffer, h_file, h_op, h_msg, h_nested, h_count, h_entered, h_failed>>
  /\ UNCHANGED <<chunkerVars, ctorVars, batchVars, entryVars, workerVars, poolVars, lockVars, resultVars, copyVars, stageVars, listVars>>

\* finally: super().close(); close returns.
CloseSuper(t) ==
  /\ h_pc[t] = "close_super"
  /\ h_pc' = [h_pc EXCEPT ![t] = "idle"]
  /\ UNCHANGED <<h_capacity, h_installed, h_buffer, h_file, h_lock, h_op, h_msg, h_nested, h_count, h_entered, h_failed>>
  /\ UNCHANGED <<chunkerVars, ctorVars, batchVars, entryVars, workerVars, poolVars, lockVars, resultVars, copyVars, stageVars, listVars>>

NextHandler ==
  \/ \E t \in Loggers : EmitCall(t)
  \/ \E t \in Loggers : EmitAcquire(t)
  \/ \E t \in Loggers : EmitAppend(t)
  \/ \E t \in Loggers : EmitWrite(t)
  \/ \E t \in Loggers : EmitRelease(t)
  \/ \E t \in Loggers : EmitHandleError(t)
  \/ \E t \in Loggers : FlushCall(t)
  \/ \E t \in Loggers : CloseCall(t)
  \/ \E t \in Loggers : FlushAcquire(t)
  \/ \E t \in Loggers : FlushWrite(t)
  \/ \E t \in Loggers : FlushLog(t)
  \/ \E t \in Loggers : FlushRelease(t)
  \/ \E t \in Loggers : CloseSuper(t)

SpecHandler == InitHandler /\ [][NextHandler]_vars

\* ============================================================ claim C27
\* Everything that entered the buffer is in the file or still in the buffer,
\* once, in the order of entry; the buffer is below capacity whenever the
\* lock is free.
C27_State ==
  (h_capacity >= 1 /\ ~h_failed) =>
    /\ h_file \o h_buffer = h_entered
    /\ \A i, j \in 1..Len(h_entered) : h_entered[i] = h_entered[j] => i = j
    /\ h_lock = 0 => Len(h_buffer) < h_capacity

\* flush (alone or inside close) returns with an empty buffer and with
\* every record that entered the buffer written.
C27_FlushEmpties ==
  \A t \in Loggers :
    (FlushRelease(t) /\ h_capacity >= 1 /\ ~h_failed) =>
      (h_buffer' = <<>> /\ h_file' = h_entered')

\* C27: with capacity >= 1 and disk writes that succeed, under any
\* interleaving of emit, flush and close from several threads every emitted
\* record is written to the file exactly once, in buffer-entry order, the
\* buffer holds fewer than capacity records whenever no thread holds the
\* handler's lock, and the buffer is empty when flush or close returns.
C27_BufferedWrites ==
  []C27_State /\ [][C27_FlushEmpties]_vars

\* Both threads emitted, writes were triggered by capacity and by a flush,
\* and records of two threads are in the file.
C27_Witness ==
  /\ h_capacity = 2 /\ ~h_failed /\ h_lock = 0
  /\ Len(h_file) = 3 /\ h_buffer = <<>>
  /\ \E i, j \in 1..Len(h_file) : h_file[i].line.thread # h_file[j].line.thread
  /\ \E t \in Loggers : h_op[t] \in {"flush", "close"} /\ h_pc[t] = "idle"

\* ============================================================ claim C30
\* C30: flush always returns; no thread ever waits for a lock that it holds
\* itself, also when the write to disk fails while the handler is one of
\* the root logger's handlers.
C30_NoThreadWaitsForItsOwnLock ==
  \A t \in Loggers : ~(h_pc[t] \in {"emit_lock", "flush_lock"} /\ h_lock = t)

\* ------------------------------------------------------------ list fields of an edition
\* JSON values as json.loads returns them: str, dict (with or without a
\* "key" member) and list.  A missing member reads as None.
JString(chars) == [json |-> "str", chars |-> chars]
JLink(key) == [json |-> "dict", key |-> JString(key)]
JObject == [json |-> "dict"]
JList(items) == [json |-> "list", items |-> items]

ListElements ==
  {JString(<<"OL1">>), JLink(<<"/", "refs", "/", "OL2">>), JObject}
FieldValues ==
  {None, JString(<<"OL1">>), JLink(<<"/", "refs", "/", "OL2">>)}
    \cup {JList(items) : items \in SeqsUpTo(ListElements, MaxRefs)}

\* _get_list: a missing value is [], a list is itself, anything else is
\* wrapped into a one-element list.
_get_list(val) ==
  IF val = None THEN <<>>
  ELSE IF val.json = "list" THEN val.items
  ELSE <<val>>

\* if isinstance(a, dict): val = a.get("key"); out.append(val.split("/")[-1])
LinkId(a) ==
  IF a.json # "dict" THEN [raised |-> "none", value |-> <<>>]
  ELSE IF "key" \notin DOMAIN a THEN [raised |-> "AttributeError", value |-> <<>>]
  ELSE [raised |-> "none", value |-> <<LastSegment(a.key.chars)>>]

\* for a in raw: ...
RECURSIVE LinkIds(_, _)
LinkIds(raw, out) ==
  IF raw = <<>> THEN [raised |-> "none", value |-> out]
  ELSE LET id == LinkId(Head(raw)) IN
       IF id.raised # "none" THEN [raised |-> id.raised, value |-> None]
       ELSE LinkIds(Tail(raw), out \o id.value)

InitLists ==
  /\ n_data \in [{"authors", "languages", "works"} -> FieldValues]
  /\ n_pc = "call"
  /\ n_out = None
  /\ IdleChunker /\ IdleCtor /\ IdleBatch /\ IdleEntry /\ IdleWorker /\ IdlePool /\ IdleLocks /\ IdleResult /\ IdleCopy /\ IdleStage /\ IdleHandler

\* The authors, languages and works of _process_edition_record.
ProcessEditionLists ==
  /\ n_pc = "call"
  /\ LET authors   == LinkIds(_get_list(n_data["authors"]), <<>>)
         languages == LinkIds(_get_list(n_data["languages"]), <<>>)
         works     == LinkIds(_get_list(n_data["works"]), <<>>)
     IN  IF authors.raised = "none" /\ languages.raised = "none" /\ works.raised = "none"
         THEN /\ n_pc' = "returned"
              /\ n_out' = [authors |-> authors.value, languages |-> languages.value,
                           works |-> works.value]
         ELSE /\ n_pc' = "raised"
              /\ n_out' = None
  /\ UNCHANGED n_data
  /\ UNCHANGED <<chunkerVars, ctorVars, batchVars, entryVars, workerVars, poolVars, lockVars, resultVars, copyVars, stageVars, handlerVars>>
NextLists == ProcessEditionLists

SpecLists == InitLists /\ [][NextLists]_vars

\* ============================================================ claim C28
\* A bare string ID or a link object with a "key".
IsReference(x) == x.json = "str" \/ (x.json = "dict" /\ "key" \in DOMAIN x)
TrailingId(x) == IF x.json = "str" THEN LastSegment(x.chars) ELSE LastSegment(x.key.chars)

\* C28: a JSON list of bare string IDs and link objects gives the list of
\* their trailing ID segments, in order and of the same length.
C28_EveryElementContributes ==
  \A f \in {"authors", "languages", "works"} :
    (/\ n_pc \in {"returned", "raised"}
     /\ \A g \in {"authors", "languages", "works"} :
          \A k \in 1..Len(_get_list(n_data[g])) : IsReference(_get_list(n_data[g])[k])
     /\ n_data[f] # None /\ n_data[f].json = "list") =>
      /\ n_pc = "returned"
      /\ n_out[f] = [k \in 1..Len(n_data[f].items) |-> TrailingId(n_data[f].items[k])]
====
